---- MODULE Spec2Model ----
(***************************************************************************)
(* The payment ledger (services/repository.py) on its one shared sqlite    *)
(* connection, the reconciliation loop (utils/payment_checker.py) and the  *)
(* top-up and cancel handlers (handlers/user/profile.py) of tg_stars-main. *)
(*                                                                         *)
(* Every coroutine runs on one asyncio event loop and shares ONE           *)
(* aiosqlite connection (main.py:90-93).  A step of the model is the code  *)
(* of one coroutine from one await to the next; the SQL statement of an    *)
(* awaited execute()/commit() takes effect in the step that issues it      *)
(* (the connection thread runs the statements in the order they are        *)
(* issued).  Awaits that touch no modelled state (fetchone, cursor close,  *)
(* bot messages) are merged into the neighbouring step.                    *)
(*                                                                         *)
(* sqlite3 transaction control (legacy mode, the default): an INSERT or    *)
(* UPDATE opens a transaction when none is open; an explicit BEGIN inside  *)
(* an open transaction raises OperationalError; commit() ends the          *)
(* transaction of the connection, whoever opened it.                       *)
(*                                                                         *)
(* Money is counted in kopecks (1/100 rouble), time in whole seconds.      *)
(***************************************************************************)
EXTENDS Integers, Sequences, FiniteSets, TLC

\* ------------------------------------------------------------------ bounds
InvoiceIds == {"i1", "i2"}            \* ids the gateways hand out
Users == {"u1", "u2"}                 \* telegram ids with a users row
Payers == {"u1"}                      \* the users who top up
Methods == {"lolz"}                   \* the gateways that are configured
HandlerTasks == {"h1"}                \* handler coroutines in flight
Tasks == {"loop"} \cup HandlerTasks
Amounts == {500, 10000}               \* amounts typed by payers, in kopecks
TzOffsets == {-1, 0, 1}               \* local time minus UTC, in seconds
MaxTime == 3                          \* the clock stops after MaxTime seconds
Callers == {"a", "b"}                 \* concurrent users of one adapter

\* PAYMENT_TIMEOUT_SECONDS, an environment setting (config.py:101)
payment_timeout_seconds == 1

\* MIN_PAYMENT_AMOUNT, 10 roubles by default (config.py:100)
min_payment_amount == 10 * 100

VARIABLES
    now,                \* true (UTC) time in seconds
    tz,                 \* the server's local-time offset, in seconds
    enabled_systems,    \* check_payment_systems(config): the enabled gateways
    payments,           \* table payments, in rowid order
    balance,            \* users.balance by telegram_id
    in_transaction,     \* sqlite3: a transaction is open on the connection
    credited,           \* history: per invoice_id, how often line 99 ran
    issued,             \* invoice ids whose payment message was sent
    menu,               \* per payer: a payment-method keyboard is on screen
    fsm,                \* per payer: "none" or the method of waiting_amount
    pending_payments,   \* the loop's list of the current cycle
    task,               \* per coroutine: position and locals
    rk_config,          \* the RobokassaConfig of the callback handler
    request_data,       \* the callback request being handled
    signed,             \* history: what the sender of the request signed
    reply,              \* the (is_valid, response_message) returned
    payment_url,        \* what get_payment_url was called with and returned
    notified,           \* history: per invoice_id, the loop's notifications
    payment_state,      \* the RobokassaPaymentStates value of a payment
    path,               \* history: the states of the payment since it was
                        \* last in PAYMENT_INITIAL, in the order it entered
                        \* them first
    payment_event,      \* the RobokassaPaymentEvents value applied last
    transition_error,   \* the last event was rejected as illegal
    gateway,            \* an invoice as the provider and the bot hold it
    adapter_call,       \* the last call of a gateway adapter
    rates_cache,        \* CryptoBotPayment._rates_cache (None is <<>>)
    cache_timestamp,    \* CryptoBotPayment._cache_timestamp
    cache_written,      \* history: the rates and the timestamp stored last
    rate_calls          \* the invocations of get_exchange_rates in flight

vars == <<now, tz, enabled_systems, payments, balance, in_transaction,
          credited, issued, menu, fsm, pending_payments, task,
          rk_config, request_data, signed, reply, payment_url, notified,
          payment_state, path, payment_event, transition_error,
          gateway, adapter_call,
          rates_cache, cache_timestamp, cache_written, rate_calls>>

ledger == <<payments, balance, in_transaction, credited>>
ui == <<issued, menu, fsm>>
robokassa == <<rk_config, request_data, signed, reply, payment_url>>
machine == <<payment_state, path, payment_event, transition_error>>
ratecache == <<rates_cache, cache_timestamp, cache_written, rate_calls>>
adapters == <<gateway, adapter_call, ratecache>>
world == <<now, tz, enabled_systems, robokassa, machine, adapters>>
env == <<world, notified>>
core == <<now, tz, enabled_systems, ledger, ui, pending_payments, task,
          notified>>
bot == <<core, machine, adapters>>

\* No callback handler, no request.
NoRkConfig ==
    [merchant_login |-> <<>>, password1 |-> <<>>, password2 |-> <<>>,
     test_password1 |-> <<>>, test_password2 |-> <<>>, use_sandbox |-> FALSE]

NoRequest ==
    [endpoint |-> "none", MerchantLogin |-> <<>>, Sum |-> <<>>,
     InvId |-> <<>>, SignatureValue |-> [text |-> <<>>, upper |-> FALSE],
     items |-> <<>>]

NoSigned ==
    [merchant_login |-> <<>>, amount |-> 0, invoice_id |-> <<>>,
     password |-> <<>>, extra_params |-> <<>>, altered |-> FALSE]

\* A returned (is_valid, response_message); f"OK{invoice_id}" is the message
\* "OK" with the invoice_id that follows it.
Response(is_valid, message, invoice_id) ==
    [is_valid |-> is_valid, message |-> message, invoice_id |-> invoice_id]

NoReply == Response(FALSE, "none", <<>>)

\* get_payment_url has not been called.
NoUrl == [amount |-> 0, invoice_id |-> <<>>, extra_params |-> <<>>,
          error |-> "none", url_params |-> <<>>]

\* ------------------------------------------------------ payment states
\* states/robokassa.py: the values of RobokassaPaymentStates.
RobokassaPaymentStates ==
    {"payment:initial", "payment:pending", "payment:created",
     "payment:validation", "payment:processing",
     "payment:awaiting_callback", "payment:completed", "payment:confirmed",
     "payment:failed", "payment:cancelled", "payment:expired",
     "payment:refund_pending", "payment:refunded", "payment:finished"}

\* The values of RobokassaPaymentEvents.
RobokassaPaymentEvents ==
    {"create_payment", "validate_payment", "validation_passed",
     "validation_failed", "start_processing", "payment_initiated",
     "payment_success_callback", "payment_failure_callback",
     "confirm_payment", "cancel_payment", "payment_expired",
     "initiate_refund", "refund_completed", "refund_failed", "finish",
     "reset"}

\* The table of lines 74-121: per state that can be left, the events that
\* leave it and the state each leads to.
TransitionRows ==
    ("payment:initial" :>
        ("create_payment" :> "payment:pending")) @@
    ("payment:pending" :>
        ("validate_payment" :> "payment:validation" @@
         "cancel_payment" :> "payment:cancelled")) @@
    ("payment:validation" :>
        ("validation_passed" :> "payment:created" @@
         "validation_failed" :> "payment:failed")) @@
    ("payment:created" :>
        ("start_processing" :> "payment:processing" @@
         "cancel_payment" :> "payment:cancelled")) @@
    ("payment:processing" :>
        ("payment_initiated" :> "payment:awaiting_callback" @@
         "cancel_payment" :> "payment:cancelled")) @@
    ("payment:awaiting_callback" :>
        ("payment_success_callback" :> "payment:completed" @@
         "payment_failure_callback" :> "payment:failed" @@
         "payment_expired" :> "payment:expired")) @@
    ("payment:completed" :>
        ("confirm_payment" :> "payment:confirmed")) @@
    ("payment:confirmed" :>
        ("finish" :> "payment:finished" @@
         "initiate_refund" :> "payment:refund_pending")) @@
    ("payment:refund_pending" :>
        ("refund_completed" :> "payment:refunded" @@
         "refund_failed" :> "payment:confirmed")) @@
    ("payment:refunded" :>
        ("finish" :> "payment:finished")) @@
    ("payment:failed" :>
        ("reset" :> "payment:initial")) @@
    ("payment:cancelled" :>
        ("reset" :> "payment:initial")) @@
    ("payment:expired" :>
        ("reset" :> "payment:initial"))

\* A table in which a finished payment can be reset.
ROBOKASSA_STATE_TRANSITIONS_FinishedResets ==
    TransitionRows @@ ("payment:finished" :> ("reset" :> "payment:initial"))

\* A table in which a refunded payment cannot be finished.
ROBOKASSA_STATE_TRANSITIONS_RefundedStuck ==
    ("payment:refunded" :> <<>>) @@
    TransitionRows @@ ("payment:finished" :> <<>>)

\* A table in which a pending payment can pass validation at once.
ROBOKASSA_STATE_TRANSITIONS_SkipsValidation ==
    ("payment:pending" :>
        ("validate_payment" :> "payment:validation" @@
         "validation_passed" :> "payment:created" @@
         "cancel_payment" :> "payment:cancelled")) @@
    TransitionRows @@ ("payment:finished" :> <<>>)

\* A table in which a completed payment can be refunded before it is
\* confirmed.
ROBOKASSA_STATE_TRANSITIONS_RefundFromCompleted ==
    ("payment:completed" :>
        ("confirm_payment" :> "payment:confirmed" @@
         "initiate_refund" :> "payment:refund_pending")) @@
    TransitionRows @@ ("payment:finished" :> <<>>)

\* Lines 74-125: PAYMENT_FINISHED has the empty row.
ROBOKASSA_STATE_TRANSITIONS ==
    TransitionRows @@ ("payment:finished" :> <<>>)

\* A payment starts in PAYMENT_INITIAL (INITIAL_STATES, line 129).
InitMachine ==
    /\ payment_state = "payment:initial"
    /\ path = <<"payment:initial">>
    /\ payment_event = "none"
    /\ transition_error = FALSE

\* No invoice of the bot at any provider: invoice_id and payload_id are the
\* keys the bot stored, remote_id, payload and status what the provider
\* holds, known whether its lookups show the invoice, newer the number of
\* invoices the merchant has made since.
NoGateway ==
    [payment_method |-> "none", invoice_id |-> <<>>, payload_id |-> <<>>,
     known |-> FALSE, remote_id |-> <<>>, payload |-> <<>>,
     status |-> "none", newer |-> 0]

\* What an adapter returns from create_invoice or from its status check;
\* none stands for None, requests for the requests it has sent.
AdapterResult(success, status, error) ==
    [none |-> FALSE, success |-> success, status |-> status, error |-> error,
     invoice_id |-> <<>>, payload |-> <<>>, crypto_amount |-> 0,
     requests |-> {}]

\* What a provider answers to one request: raises for a failed connection,
\* code for the HTTP status, ok for a body of the expected shape that
\* reports no error ("invoice" in result, success, ok, not error), status
\* for the status or state field ("absent" when the body has none),
\* payments for a non-empty payments list, items for the listed invoices,
\* id for the id of a new invoice, rates for the rate table, rate for the
\* one rate of a price answer (<<>> when the body has none).
HttpResponse(raises, code, ok) ==
    [raises |-> raises, code |-> code, ok |-> ok, status |-> "absent",
     payments |-> FALSE, items |-> <<>>, id |-> <<>>, rates |-> <<>>,
     rate |-> <<>>]

NoResponse == HttpResponse(FALSE, 0, FALSE)

\* The last call of an adapter: the key or the asset it was given, what
\* the provider answered, and its result.
NoCall ==
    [op |-> "none", payment_method |-> "none", check_id |-> <<>>,
     asset |-> "none", rate_response |-> NoResponse,
     response |-> NoResponse,
     result |-> AdapterResult(FALSE, "none", "none")]

\* An invocation of get_exchange_rates: its locals current_time and
\* force_refresh, and what it returns (source tells where the rates are
\* from: the cache or the provider's answer).
NoRateCall ==
    [pc |-> "idle", current_time |-> 0, force_refresh |-> FALSE,
     result |-> [success |-> FALSE, rates |-> <<>>, source |-> "none"]]

\* The adapters keep nothing between calls but the rate cache of
\* CryptoBotPayment, which is empty in every create_invoice: the handler
\* makes a new adapter for each top-up (profile.py:135-139).
InitAdapters ==
    /\ gateway = NoGateway
    /\ adapter_call = NoCall
    /\ rates_cache = <<>>
    /\ cache_timestamp = 0
    /\ cache_written = [rates |-> <<>>, timestamp |-> 0]
    /\ rate_calls = [c \in Callers |-> NoRateCall]

\* ------------------------------------------------------------------ rows
NoRow == [invoice_id |-> "none", user_id |-> "none", payment_method |-> "none",
          amount |-> 0, fee_amount |-> 0, total_amount |-> 0,
          status |-> "none", expires_at |-> 0]

IdleTask == [pc |-> "idle", invoice_id |-> "none", payment |-> NoRow,
             row |-> NoRow, rowcount |-> 0, status_result |-> "none",
             invoice_result |-> "none", result |-> "none", sleep |-> 0]

RowIds == 1..Len(payments)

\* ------------------------------------------------------------------ time
\* datetime.now(): naive local time.
LocalNow == now + tz

\* CURRENT_TIMESTAMP: the UTC time, as text 'YYYY-MM-DD HH:MM:SS'.
CurrentTimestamp == now

\* expires_at > CURRENT_TIMESTAMP: expires_at holds the text of a naive
\* local datetime (the sqlite3 adapter stores isoformat(" ")), and the two
\* texts are compared as they stand, local against UTC.
GreaterThanCurrentTimestamp(expires_at) == expires_at > CurrentTimestamp

\* ------------------------------------------------------------------ queries
PendingUnexpired(r) ==
    r.status = "pending" /\ GreaterThanCurrentTimestamp(r.expires_at)

\* SELECT * FROM payments WHERE status = 'pending' AND expires_at > CURRENT_TIMESTAMP
get_pending_payments == SelectSeq(payments, PendingUnexpired)

\* ... WHERE user_id = ? AND status = 'pending' AND expires_at > CURRENT_TIMESTAMP
\* ORDER BY created_at DESC LIMIT 1
get_user_active_payment(user_id) ==
    LET ids == {n \in RowIds : payments[n].user_id = user_id
                                /\ PendingUnexpired(payments[n])}
    IN  IF ids = {} THEN NoRow
        ELSE payments[CHOOSE n \in ids : \A m \in ids : m <= n]

\* SELECT * FROM payments WHERE invoice_id = ? AND status = 'pending'; fetchone()
SelectPending(invoice_id) ==
    LET ids == {n \in RowIds : payments[n].invoice_id = invoice_id
                                /\ payments[n].status = "pending"}
    IN  IF ids = {} THEN NoRow
        ELSE payments[CHOOSE n \in ids : \A m \in ids : n <= m]

\* ------------------------------------------------------------------ statements
\* ... WHERE invoice_id = ? AND status != ?
UpdateStatusMatches(r, invoice_id, status) ==
    r.invoice_id = invoice_id /\ r.status # status

\* UPDATE payments SET status = ? WHERE invoice_id = ? AND status != ?
UpdateStatusWhere(invoice_id, status) ==
    [n \in RowIds |->
        IF UpdateStatusMatches(payments[n], invoice_id, status)
        THEN [payments[n] EXCEPT !.status = status]
        ELSE payments[n]]

\* cursor.rowcount of that UPDATE
UpdateStatusRowcount(invoice_id, status) ==
    Cardinality({n \in RowIds :
                    UpdateStatusMatches(payments[n], invoice_id, status)})

\* UPDATE payments SET status = 'paid' WHERE invoice_id = ?
SetPaidWhere(invoice_id) ==
    [n \in RowIds |->
        IF payments[n].invoice_id = invoice_id
        THEN [payments[n] EXCEPT !.status = "paid"]
        ELSE payments[n]]

\* UPDATE users SET balance = balance + ? WHERE telegram_id = ?
AddBalanceWhere(user_id, amount) ==
    [u \in Users |-> IF u = user_id THEN balance[u] + amount ELSE balance[u]]

\* A credit of what the user paid, fee included, instead of payment["amount"].
SettleCreditTotal(payment) ==
    AddBalanceWhere(payment.user_id, payment.total_amount)

\* A credit without its WHERE clause: of every user.
SettleCreditEveryUser(payment) ==
    [u \in Users |-> balance[u] + payment.amount]

\* The parameters of that UPDATE: (payment["amount"], payment["user_id"]).
SettleCredit(payment) == AddBalanceWhere(payment.user_id, payment.amount)

\* A payments table whose invoice_id column has no UNIQUE constraint.
NoUniqueConstraint(invoice_id) == FALSE

\* invoice_id TEXT UNIQUE NOT NULL
UniqueViolation(invoice_id) ==
    \E n \in RowIds : payments[n].invoice_id = invoice_id

\* commit(): ends the transaction of the connection.
Commit ==
    /\ in_transaction' = FALSE
    /\ UNCHANGED <<payments, balance, credited>>

\* A data-changing statement first opens a transaction if none is open.
ImplicitBegin == in_transaction' = TRUE

\* ------------------------------------------------------------------ Init
\* No notification sent: to the owner of a success, to the admins of a
\* success, to the owner of an expiry.
NoNotice == [success |-> 0, admin |-> 0, expired |-> 0]

InitBot ==
    /\ now = 0
    /\ enabled_systems = Methods
    /\ payments = <<>>
    /\ balance = [u \in Users |-> 0]
    /\ in_transaction = FALSE
    /\ credited = [i \in InvoiceIds |-> 0]
    /\ issued = {}
    /\ menu = [u \in Payers |-> FALSE]
    /\ fsm = [u \in Payers |-> "none"]
    /\ pending_payments = <<>>
    /\ task = [t \in Tasks |-> IdleTask]
    /\ notified = [i \in InvoiceIds |-> NoNotice]

Init ==
    /\ tz \in TzOffsets
    /\ InitBot
    /\ rk_config = NoRkConfig
    /\ request_data = NoRequest
    /\ signed = NoSigned
    /\ reply = NoReply
    /\ payment_url = NoUrl
    /\ InitMachine
    /\ InitAdapters

Tick ==
    /\ now < MaxTime
    /\ now' = now + 1
    /\ UNCHANGED <<tz, enabled_systems, robokassa, machine, adapters,
                   notified, ledger, ui, pending_payments, task>>

\* ------------------------------------------------------------------ helpers
\* Where a coroutine continues when the repository call it awaits is over:
\* the loop goes on with the next listed payment, a handler is done.
Return(t) == IF t = "loop" THEN "next" ELSE "done"

\* The locals of process_single_payment end with the call.
Locals(t, r) ==
    IF t = "loop" /\ r.pc = "next"
    THEN [IdleTask EXCEPT !.pc = "next", !.invoice_id = r.invoice_id,
                          !.status_result = r.status_result,
                          !.result = r.result]
    ELSE r

SetTask(t, r) == task' = [task EXCEPT ![t] = Locals(t, r)]

\* process_single_payment, lines 80-84, where process_successful_payment
\* returns to the loop: `if processed_payment:` notifies the owner and the
\* admins.
ProcessedAlways(result) == TRUE

Processed(result) == result = "payment"

Notified(t, invoice_id, result) ==
    IF t = "loop" /\ Processed(result)
    THEN [notified EXCEPT ![invoice_id].success = @ + 1,
                          ![invoice_id].admin = @ + 1]
    ELSE notified

\* update_payment_status, line 80: return cursor.rowcount > 0
StatusChanged(rowcount) == rowcount > 0

\* ------------------------------------------------------------------ settle
\* process_successful_payment, line 93: execute("BEGIN").
SettleBegin(t) ==
    /\ task[t].pc = "s_begin"
    /\ IF in_transaction
       THEN /\ SetTask(t, [task[t] EXCEPT !.pc = Return(t),
                                          !.result = "OperationalError"])
            /\ UNCHANGED in_transaction
       ELSE /\ SetTask(t, [task[t] EXCEPT !.pc = "s_select"])
            /\ in_transaction' = TRUE
    /\ UNCHANGED <<env, payments, balance, credited, ui, pending_payments>>

\* lines 94-97: SELECT ... status = 'pending', fetchone, return None.
SettleSelect(t) ==
    /\ task[t].pc = "s_select"
    /\ LET payment == SelectPending(task[t].invoice_id)
       IN  IF payment = NoRow
           THEN /\ SetTask(t, [task[t] EXCEPT !.pc = Return(t), !.row = NoRow,
                                               !.result = "None"])
                /\ notified' = Notified(t, task[t].invoice_id, "None")
           ELSE /\ SetTask(t, [task[t] EXCEPT !.pc = "s_status",
                                               !.row = payment])
                /\ UNCHANGED notified
    /\ UNCHANGED <<world, ledger, ui, pending_payments>>

\* line 98: UPDATE payments SET status = 'paid' WHERE invoice_id = ?
SettleUpdateStatus(t) ==
    /\ task[t].pc = "s_status"
    /\ payments' = SetPaidWhere(task[t].invoice_id)
    /\ ImplicitBegin
    /\ SetTask(t, [task[t] EXCEPT !.pc = "s_balance"])
    /\ UNCHANGED <<env, balance, credited, ui, pending_payments>>

\* line 99: UPDATE users SET balance = balance + amount WHERE telegram_id = user_id
SettleUpdateBalance(t) ==
    /\ task[t].pc = "s_balance"
    /\ balance' = SettleCredit(task[t].row)
    /\ credited' = [credited EXCEPT ![task[t].invoice_id] = @ + 1]
    /\ ImplicitBegin
    /\ SetTask(t, [task[t] EXCEPT !.pc = "s_commit"])
    /\ UNCHANGED <<env, payments, ui, pending_payments>>

\* lines 100-101: commit, return dict(payment).
SettleCommit(t) ==
    /\ task[t].pc = "s_commit"
    /\ Commit
    /\ SetTask(t, [task[t] EXCEPT !.pc = Return(t), !.result = "payment"])
    /\ notified' = Notified(t, task[t].invoice_id, "payment")
    /\ UNCHANGED <<world, ui, pending_payments>>

Settle ==
    \/ \E t \in Tasks : SettleBegin(t)
    \/ \E t \in Tasks : SettleSelect(t)
    \/ \E t \in Tasks : SettleUpdateStatus(t)
    \/ \E t \in Tasks : SettleUpdateBalance(t)
    \/ \E t \in Tasks : SettleCommit(t)

\* ------------------------------------------------------------------ the loop
\* check_pending_payments, line 45: the cycle lists the pending payments.
LoopStartCycle ==
    /\ task["loop"].pc = "idle"
    /\ pending_payments' = get_pending_payments
    /\ SetTask("loop", [IdleTask EXCEPT !.pc = "next"])
    /\ UNCHANGED <<env, ledger, ui>>

\* start_checking, line 38: asyncio.sleep(15) after check_pending_payments
\* has returned.
NormalSleep == 15

\* line 41: asyncio.sleep(30) in the handler of an exception that
\* check_pending_payments lets through.
BackoffSleep == 30

\* lines 46-48 with the list exhausted; start_checking sleeps (line 38).
LoopCycleDone ==
    /\ task["loop"].pc = "next"
    /\ pending_payments = <<>>
    /\ SetTask("loop", [IdleTask EXCEPT !.sleep = NormalSleep])
    /\ UNCHANGED <<env, ledger, ui, pending_payments>>

\* datetime.now() > expires_at (line 58)
Expired(payment) == LocalNow > payment.expires_at

\* A loop that takes every gateway for enabled.
GatewayEnabledAlways(payment) == TRUE

\* line 47: self.enabled_systems.get(payment['payment_method'])
GatewayEnabled(payment) == payment.payment_method \in enabled_systems

\* check_pending_payments, lines 46-48, and process_single_payment up to
\* its first await: a payment of a gateway that is not enabled is passed
\* over (line 47); for one that has expired
\* update_payment_status(invoice_id, "expired") issues its UPDATE (lines
\* 57-59); for the others the adapter's status check is awaited (63-73).
LoopNextPayment ==
    /\ task["loop"].pc = "next"
    /\ pending_payments # <<>>
    /\ pending_payments' = Tail(pending_payments)
    /\ LET payment == Head(pending_payments)
       IN  IF ~GatewayEnabled(payment)
           THEN /\ SetTask("loop", [IdleTask EXCEPT !.pc = "next",
                       !.invoice_id = payment.invoice_id,
                       !.result = "skipped"])
                /\ UNCHANGED ledger
           ELSE IF Expired(payment)
           THEN /\ payments' = UpdateStatusWhere(payment.invoice_id, "expired")
                /\ ImplicitBegin
                /\ SetTask("loop", [IdleTask EXCEPT
                       !.pc = "e_commit", !.payment = payment,
                       !.invoice_id = payment.invoice_id,
                       !.rowcount =
                           UpdateStatusRowcount(payment.invoice_id, "expired")])
                /\ UNCHANGED <<balance, credited>>
           ELSE /\ SetTask("loop", [IdleTask EXCEPT
                       !.pc = "gw_wait", !.payment = payment,
                       !.invoice_id = payment.invoice_id])
                /\ UNCHANGED ledger
    /\ UNCHANGED <<env, ui>>

\* update_payment_status, lines 79-80: commit, return rowcount > 0;
\* process_single_payment, lines 60-61: notify when it changed a row, return.
LoopExpireCommit ==
    /\ task["loop"].pc = "e_commit"
    /\ Commit
    /\ SetTask("loop", [task["loop"] EXCEPT !.pc = "next",
           !.result = IF StatusChanged(task["loop"].rowcount)
                      THEN "True" ELSE "False"])
    /\ notified' =
          IF StatusChanged(task["loop"].rowcount)
          THEN [notified EXCEPT ![task["loop"].invoice_id].expired = @ + 1]
          ELSE notified
    /\ UNCHANGED <<world, ui, pending_payments>>

StatusResults == {"paid", "pending", "expired", "fail", "raise"}

\* A loop whose cycle ends when the status check raises.
AfterStatusRaiseEndsCycle(status_result) ==
    IF status_result = "paid" THEN "s_begin"
    ELSE IF status_result = "raise" THEN "idle" ELSE "next"

\* A loop that settles on every status but pending.
AfterStatusNotPendingSettles(status_result) ==
    IF status_result \in {"paid", "expired"} THEN "s_begin" ELSE "next"

\* A loop that takes a failed status check for a payment.
AfterStatusFailSettles(status_result) ==
    IF status_result \in {"paid", "fail", "raise"} THEN "s_begin" ELSE "next"

\* Where process_single_payment goes on the adapter's answer (lines 75-80
\* and 86-87): "fail" is success = False, "raise" an exception of the
\* adapter; only "paid" leads on to process_successful_payment.
AfterStatus(status_result) ==
    IF status_result = "paid" THEN "s_begin" ELSE "next"

LoopGatewayReply(status_result) ==
    /\ task["loop"].pc = "gw_wait"
    /\ SetTask("loop", [task["loop"] EXCEPT
           !.pc = AfterStatus(status_result),
           !.status_result = status_result])
    /\ UNCHANGED <<env, ledger, ui, pending_payments>>

\* The cycle but for the commit of an expiry.
LoopPolling ==
    \/ LoopStartCycle
    \/ LoopCycleDone
    \/ LoopNextPayment
    \/ \E status_result \in StatusResults : LoopGatewayReply(status_result)

Loop == LoopPolling \/ LoopExpireCommit

\* ------------------------------------------------------------------ handlers
\* setting lolz_fee as init_db seeds it, in per cent.
fee_percentage(payment_method) == 7

\* round(x, 2) of an amount in roubles: to the nearest kopeck, ties to even.
Round2(n, d) ==
    LET q == n \div d
        r == n % d
    IN  IF 2 * r > d \/ (2 * r = d /\ q % 2 = 1) THEN q + 1 ELSE q

\* process_payment_amount, lines 132-133.
fee_amount(amount, payment_method) ==
    Round2(amount * fee_percentage(payment_method), 100)

total_amount(amount, payment_method) ==
    amount + fee_amount(amount, payment_method)

\* show_payment_methods: the method keyboard is shown unless the user has
\* an active payment.
ShowPaymentMethods(u) ==
    /\ get_user_active_payment(u) = NoRow
    /\ ~menu[u]
    /\ menu' = [menu EXCEPT ![u] = TRUE]
    /\ UNCHANGED <<env, ledger, issued, fsm, pending_payments, task>>

\* handle_payment_method: a button of the keyboard (it shows the enabled
\* gateways) sets waiting_amount; the keyboard is replaced by the prompt.
HandlePaymentMethod(u, payment_method) ==
    /\ menu[u]
    /\ payment_method \in enabled_systems
    /\ fsm' = [fsm EXCEPT ![u] = payment_method]
    /\ menu' = [menu EXCEPT ![u] = FALSE]
    /\ UNCHANGED <<env, ledger, issued, pending_payments, task>>

\* process_payment_amount, lines 114-148: the amount is checked, the fee
\* and the total are computed and the adapter's create_invoice is awaited.
ProcessPaymentAmount(t, u, amount) ==
    /\ task[t].pc = "idle"
    /\ fsm[u] # "none"
    /\ IF amount < min_payment_amount
       THEN /\ SetTask(t, [IdleTask EXCEPT !.pc = "done",
                                           !.result = "too_small"])
            /\ UNCHANGED fsm
       ELSE IF fsm[u] \notin enabled_systems
       THEN /\ SetTask(t, [IdleTask EXCEPT !.pc = "done",
                                           !.result = "disabled"])
            /\ fsm' = [fsm EXCEPT ![u] = "none"]
       ELSE /\ SetTask(t, [IdleTask EXCEPT
                   !.pc = "c_gateway",
                   !.payment = [NoRow EXCEPT
                       !.user_id = u, !.payment_method = fsm[u],
                       !.amount = amount,
                       !.fee_amount = fee_amount(amount, fsm[u]),
                       !.total_amount = total_amount(amount, fsm[u]),
                       !.status = "pending"]])
            /\ UNCHANGED fsm
    /\ UNCHANGED <<env, ledger, issued, menu, pending_payments>>

\* What create_invoice returns: None (xrocet_payment.py:55-62), a dict with
\* success False, or a dict with success True and the invoice_id.
InvoiceResults == {"None", "failure", "success"}

\* A handler that takes every result of create_invoice for an invoice.
InvoiceCreatedAlways(invoice_result) == TRUE

\* line 150: not (not invoice_result or not invoice_result.get("success"))
InvoiceCreated(invoice_result) == invoice_result = "success"

\* lines 150-153: the adapter returned no invoice; the error is answered and
\* the conversation state cleared.  On None the answer of line 151 raises
\* AttributeError (None has no get) and the handler ends before line 152.
CreateInvoiceFails(t, invoice_result) ==
    /\ task[t].pc = "c_gateway"
    /\ ~InvoiceCreated(invoice_result)
    /\ IF invoice_result = "None"
       THEN /\ SetTask(t, [task[t] EXCEPT
                   !.pc = "done", !.invoice_result = invoice_result,
                   !.result = "AttributeError"])
            /\ UNCHANGED fsm
       ELSE /\ SetTask(t, [task[t] EXCEPT
                   !.pc = "done", !.invoice_result = invoice_result,
                   !.result = "gateway_error"])
            /\ fsm' = [fsm EXCEPT ![task[t].payment.user_id] = "none"]
    /\ UNCHANGED <<env, ledger, issued, menu, pending_payments>>

\* lines 155-166: the gateway returns its invoice_id (whatever the provider
\* sends: nothing keeps it apart from the ids of other providers),
\* expires_at is taken from datetime.now() and the message with the cancel
\* button is sent.
CreateInvoiceReply(t, invoice_id) ==
    /\ task[t].pc = "c_gateway"
    /\ issued' = issued \cup {invoice_id}
    /\ \E invoice_result \in InvoiceResults :
          /\ InvoiceCreated(invoice_result)
          /\ SetTask(t, [task[t] EXCEPT
                 !.pc = "c_insert",
                 !.invoice_result = invoice_result,
                 !.invoice_id = invoice_id,
                 !.payment = [task[t].payment EXCEPT
                     !.invoice_id = invoice_id,
                     !.expires_at = LocalNow + payment_timeout_seconds]])
    /\ UNCHANGED <<env, ledger, menu, fsm, pending_payments>>

\* create_payment, lines 66-69: the INSERT; a second row with the same
\* invoice_id raises IntegrityError and the handler ends there.
CreatePaymentInsert(t) ==
    /\ task[t].pc = "c_insert"
    /\ ImplicitBegin
    /\ IF UniqueViolation(task[t].invoice_id)
       THEN /\ SetTask(t, [task[t] EXCEPT !.pc = "done",
                                          !.result = "IntegrityError"])
            /\ UNCHANGED payments
       ELSE /\ payments' = Append(payments, task[t].payment)
            /\ SetTask(t, [task[t] EXCEPT !.pc = "c_commit"])
    /\ UNCHANGED <<env, balance, credited, ui, pending_payments>>

\* create_payment, line 70, and process_payment_amount, line 175.
CreatePaymentCommit(t) ==
    /\ task[t].pc = "c_commit"
    /\ Commit
    /\ fsm' = [fsm EXCEPT ![task[t].payment.user_id] = "none"]
    /\ SetTask(t, [task[t] EXCEPT !.pc = "done", !.result = "created"])
    /\ UNCHANGED <<env, issued, menu, pending_payments>>

\* cancel_payment, lines 179-180: the cancel button of a payment message;
\* update_payment_status(invoice_id, "cancelled") issues its UPDATE.
CancelPayment(t, invoice_id) ==
    /\ task[t].pc = "idle"
    /\ invoice_id \in issued
    /\ payments' = UpdateStatusWhere(invoice_id, "cancelled")
    /\ ImplicitBegin
    /\ SetTask(t, [IdleTask EXCEPT
           !.pc = "x_commit", !.invoice_id = invoice_id,
           !.rowcount = UpdateStatusRowcount(invoice_id, "cancelled")])
    /\ UNCHANGED <<env, balance, credited, ui, pending_payments>>

\* update_payment_status, lines 79-80: commit, return rowcount > 0.
CancelPaymentCommit(t) ==
    /\ task[t].pc = "x_commit"
    /\ Commit
    /\ SetTask(t, [task[t] EXCEPT !.pc = "done",
           !.result = IF StatusChanged(task[t].rowcount)
                      THEN "True" ELSE "False"])
    /\ UNCHANGED <<env, ui, pending_payments>>

\* The handler coroutine ends; its locals are gone.
HandlerReturn(t) ==
    /\ task[t].pc = "done"
    /\ SetTask(t, IdleTask)
    /\ UNCHANGED <<env, ledger, ui, pending_payments>>

Handlers ==
    \/ \E u \in Payers : ShowPaymentMethods(u)
    \/ \E u \in Payers, m \in Methods : HandlePaymentMethod(u, m)
    \/ \E t \in HandlerTasks, u \in Payers, a \in Amounts :
            ProcessPaymentAmount(t, u, a)
    \/ \E t \in HandlerTasks, invoice_result \in InvoiceResults :
          CreateInvoiceFails(t, invoice_result)
    \/ \E t \in HandlerTasks, i \in InvoiceIds : CreateInvoiceReply(t, i)
    \/ \E t \in HandlerTasks : CreatePaymentInsert(t)
    \/ \E t \in HandlerTasks : CreatePaymentCommit(t)
    \/ \E t \in HandlerTasks, i \in InvoiceIds : CancelPayment(t, i)
    \/ \E t \in HandlerTasks : CancelPaymentCommit(t)
    \/ \E t \in HandlerTasks : HandlerReturn(t)

\* ------------------------------------------------------------------ the program
Next == Tick \/ Loop \/ Settle \/ Handlers

Spec == Init /\ [][Next]_vars

\* A caller of process_successful_payment beside the loop: a coroutine
\* that calls it for any invoice_id.
SettleCall(t, invoice_id) ==
    /\ task[t].pc = "idle"
    /\ SetTask(t, [IdleTask EXCEPT !.pc = "s_begin", !.invoice_id = invoice_id])
    /\ UNCHANGED <<env, ledger, ui, pending_payments>>

\* The program with such a caller, at one instant: the clock stands still,
\* so that no payment expires.
NextLedger ==
    \/ LoopPolling
    \/ Settle
    \/ Handlers
    \/ \E t \in HandlerTasks, i \in InvoiceIds : SettleCall(t, i)

SpecLedger == Init /\ [][NextLedger]_vars

\* The ledger called by one coroutine at a time: no loop, no clock.
NextSequential ==
    \/ Handlers
    \/ Settle
    \/ \E t \in HandlerTasks, i \in InvoiceIds : SettleCall(t, i)

SpecSequential == Init /\ [][NextSequential]_vars

\* ------------------------------------------------------------------ loop runs
\* The loop over a ledger that holds the invoices of two users, as a start
\* of the program finds it (main.py:88-119), with the gateway enabled or
\* not; while it runs the users cancel, exceptions occur, and the program
\* is shut down.

\* A loop that ends when get_pending_payments raises.
AfterListErrorStops == "stopped"

\* Where the loop is after an exception of get_pending_payments: line 49
\* catches it, check_pending_payments returns and start_checking sleeps
\* (line 38) before the next cycle.
AfterListError == "idle"

\* check_pending_payments, lines 45 and 49-50: get_pending_payments raises;
\* the handler of line 49 logs, check_pending_payments returns and
\* start_checking goes on to line 38.
LoopListFails ==
    /\ task["loop"].pc = "idle"
    /\ SetTask("loop", [IdleTask EXCEPT !.pc = AfterListError,
                                        !.result = "Exception",
                                        !.sleep = NormalSleep])
    /\ UNCHANGED <<env, ledger, ui, pending_payments>>

\* process_single_payment, lines 54-57 and 86-87: an exception before the
\* first await (datetime.fromisoformat on a malformed expires_at) is logged.
LoopPaymentRaises ==
    /\ task["loop"].pc = "next"
    /\ pending_payments # <<>>
    /\ GatewayEnabled(Head(pending_payments))
    /\ pending_payments' = Tail(pending_payments)
    /\ SetTask("loop", [IdleTask EXCEPT !.pc = "next",
           !.invoice_id = Head(pending_payments).invoice_id,
           !.result = "Exception"])
    /\ UNCHANGED <<env, ledger, ui>>

\* main.py:123-124: payment_checker_task.cancel().  CancelledError is no
\* Exception: none of the handlers of lines 39, 49 and 86 catches it, and
\* the task ends at the await at which it is suspended.
Shutdown ==
    /\ task["loop"].pc # "cancelled"
    /\ task' = [task EXCEPT !["loop"] = [IdleTask EXCEPT !.pc = "cancelled"]]
    /\ UNCHANGED <<env, ledger, ui, pending_payments>>

\* The steps of the loop's coroutine.
LoopRun ==
    \/ Loop
    \/ SettleBegin("loop")
    \/ SettleSelect("loop")
    \/ SettleUpdateStatus("loop")
    \/ SettleUpdateBalance("loop")
    \/ SettleCommit("loop")

StoredPayment(invoice_id, user_id, amount, created_at) ==
    [invoice_id |-> invoice_id, user_id |-> user_id,
     payment_method |-> "lolz", amount |-> amount,
     fee_amount |-> fee_amount(amount, "lolz"),
     total_amount |-> total_amount(amount, "lolz"),
     status |-> "pending",
     expires_at |-> created_at + payment_timeout_seconds]

InitLoop ==
    /\ now = 0
    /\ tz \in TzOffsets
    /\ enabled_systems \in SUBSET Methods
    /\ \E amount \in Amounts :
          /\ amount >= min_payment_amount
          /\ payments = <<StoredPayment("i1", "u1", amount, tz),
                          StoredPayment("i2", "u2", amount, tz)>>
    /\ balance = [u \in Users |-> 0]
    /\ in_transaction = FALSE
    /\ credited = [i \in InvoiceIds |-> 0]
    /\ issued = InvoiceIds
    /\ menu = [u \in Payers |-> FALSE]
    /\ fsm = [u \in Payers |-> "none"]
    /\ pending_payments = <<>>
    /\ task = [t \in Tasks |-> IdleTask]
    /\ notified = [i \in InvoiceIds |-> NoNotice]
    /\ rk_config = NoRkConfig
    /\ request_data = NoRequest
    /\ signed = NoSigned
    /\ reply = NoReply
    /\ payment_url = NoUrl
    /\ InitMachine
    /\ InitAdapters

NextLoop ==
    \/ Tick
    \/ Loop
    \/ LoopListFails
    \/ LoopPaymentRaises
    \/ Settle
    \/ \E t \in HandlerTasks, i \in InvoiceIds : CancelPayment(t, i)
    \/ \E t \in HandlerTasks : CancelPaymentCommit(t)
    \/ \E t \in HandlerTasks : HandlerReturn(t)
    \/ Shutdown

SpecLoop == InitLoop /\ [][NextLoop]_vars

\* The event loop runs the loop's coroutine whenever it can go on: its
\* sleeps end, and its awaited calls return or raise.
SpecLoopLive == SpecLoop /\ WF_vars(LoopRun)

\* The steps in which an awaited call of a handler's coroutine returns.
HandlerRun ==
    \E t \in HandlerTasks : CancelPaymentCommit(t) \/ HandlerReturn(t)

\* The loop while its cycles keep running: the listing succeeds, the rows
\* are well formed and the program is not shut down; the users cancel.
NextLoopSteady ==
    \/ Tick
    \/ LoopRun
    \/ \E t \in HandlerTasks, i \in InvoiceIds : CancelPayment(t, i)
    \/ HandlerRun

\* Time passes, and the event loop runs every coroutine that can go on.
SpecLoopSteady ==
    /\ InitLoop
    /\ [][NextLoopSteady]_vars
    /\ WF_vars(Tick)
    /\ WF_vars(LoopRun)
    /\ WF_vars(HandlerRun)

\* ------------------------------------------------------------------ robokassa
\* src/payments/robokassa.py.  A Python str is the sequence of its
\* characters; a dict is the sequence of its <<key, value>> items in
\* insertion order, with distinct keys; a float amount with at most two
\* decimals is its number of hundredths; None and "" are both <<>>.
\* hashlib.md5 is taken as free of collisions: a hex digest is the string
\* that was hashed, together with the case of its letters.

\* The characters in use, in code point order.
Alphabet ==
    <<".", "0", "1", "2", "3", "4", "5", "6", "7", "8", "9", ":",
      "S", "_", "a", "b", "h", "i", "m", "p", "q", "x", "y">>

Ord(c) == CHOOSE k \in 1..Len(Alphabet) : Alphabet[k] = c

\* s < t of two str.
RECURSIVE StrLess(_, _)
StrLess(s, t) ==
    IF t = <<>> THEN FALSE
    ELSE IF s = <<>> THEN TRUE
    ELSE IF Head(s) # Head(t) THEN Ord(Head(s)) < Ord(Head(t))
    ELSE StrLess(Tail(s), Tail(t))

\* ":".join(parts)
RECURSIVE Join(_)
Join(parts) ==
    IF parts = <<>> THEN <<>>
    ELSE IF Len(parts) = 1 THEN parts[1]
    ELSE parts[1] \o <<":">> \o Join(Tail(parts))

DigitChars == <<"0", "1", "2", "3", "4", "5", "6", "7", "8", "9">>

\* str(n) of an int n >= 0.
RECURSIVE StrInt(_)
StrInt(n) ==
    IF n < 10 THEN <<DigitChars[n + 1]>>
    ELSE StrInt(n \div 10) \o <<DigitChars[(n % 10) + 1]>>

\* str(amount) of a float: the shortest repr, always with a fraction.
StrFloat(amount) ==
    LET f == amount % 100
    IN  StrInt(amount \div 100) \o <<".">> \o
        (IF f % 10 = 0 THEN StrInt(f \div 10)
         ELSE <<DigitChars[(f \div 10) + 1], DigitChars[(f % 10) + 1]>>)

DigitValue(c) == CHOOSE d \in 0..9 : DigitChars[d + 1] = c

\* int(text) of a string of digits.
RECURSIVE ParseInt(_)
ParseInt(text) ==
    IF text = <<>> THEN 0
    ELSE 10 * ParseInt(SubSeq(text, 1, Len(text) - 1))
         + DigitValue(text[Len(text)])

\* float(text) of a decimal with at most two digits after the point.
ParseFloat(text) ==
    LET dots == {k \in 1..Len(text) : text[k] = "."}
    IN  IF dots = {} THEN 100 * ParseInt(text)
        ELSE LET k == CHOOSE d \in dots : TRUE
                 frac == SubSeq(text, k + 1, Len(text))
             IN  100 * ParseInt(SubSeq(text, 1, k - 1))
                 + (IF Len(frac) = 0 THEN 0
                    ELSE IF Len(frac) = 1 THEN 10 * ParseInt(frac)
                    ELSE ParseInt(frac))

\* extra_params.keys(), in insertion order.
Keys(extra_params) == [k \in 1..Len(extra_params) |-> extra_params[k][1]]

\* extra_params[key]
Lookup(extra_params, key) ==
    extra_params[CHOOSE k \in 1..Len(extra_params) :
                     extra_params[k][1] = key][2]

\* sorted(keys) of distinct str keys.
RECURSIVE Sorted(_)
Sorted(keys) ==
    IF keys = <<>> THEN <<>>
    ELSE LET k == CHOOSE i \in 1..Len(keys) :
                      \A j \in 1..Len(keys) : ~StrLess(keys[j], keys[i])
         IN  <<keys[k]>> \o
             Sorted(SubSeq(keys, 1, k - 1) \o SubSeq(keys, k + 1, Len(keys)))

\* The keys as the dict iterates them, unsorted.
SignatureKeysUnsorted(extra_params) == Keys(extra_params)

\* The keys in the order in which calculate_signature appends their values.
SignatureKeys(extra_params) == Sorted(Keys(extra_params))

Md5HexDigest(signature_string) == [text |-> signature_string, upper |-> FALSE]

Lower(digest) == [digest EXCEPT !.upper = FALSE]

Upper(digest) == [digest EXCEPT !.upper = TRUE]

calculate_signature(merchant_login, amount, invoice_id, password, extra_params) ==
    LET keys == SignatureKeys(extra_params)
        signature_parts ==
            <<merchant_login, StrFloat(amount), invoice_id, password>> \o
            [k \in 1..Len(keys) |-> Lookup(extra_params, keys[k])]
    IN  Md5HexDigest(Join(signature_parts))

verify_callback_signature(merchant_login, amount, invoice_id, signature, password, extra_params) ==
    Lower(calculate_signature(merchant_login, amount, invoice_id, password,
                              extra_params)) = Lower(signature)

\* RobokassaConfig.get_password1 / get_password2
get_password1 ==
    IF rk_config.use_sandbox /\ rk_config.test_password1 # <<>>
    THEN rk_config.test_password1
    ELSE rk_config.password1

get_password2 ==
    IF rk_config.use_sandbox /\ rk_config.test_password2 # <<>>
    THEN rk_config.test_password2
    ELSE rk_config.password2

verify_payment(merchant_login, amount, invoice_id, signature, extra_params) ==
    verify_callback_signature(merchant_login, amount, invoice_id, signature,
                              get_password1, extra_params)

\* A handler whose secondary check uses the primary password.
verify_payment_secondary_password1(merchant_login, amount, invoice_id, signature, extra_params) ==
    verify_callback_signature(merchant_login, amount, invoice_id, signature,
                              get_password1, extra_params)

verify_payment_secondary(merchant_login, amount, invoice_id, signature, extra_params) ==
    verify_callback_signature(merchant_login, amount, invoice_id, signature,
                              get_password2, extra_params)

\* A success acknowledgement without the invoice_id.
process_success_callback_bare(merchant_login, amount, invoice_id, signature, extra_params) ==
    IF ~verify_payment(merchant_login, amount, invoice_id, signature,
                       extra_params)
    THEN Response(FALSE, "Invalid signature", <<>>)
    ELSE Response(TRUE, "OK", <<>>)

process_success_callback(merchant_login, amount, invoice_id, signature, extra_params) ==
    IF ~verify_payment(merchant_login, amount, invoice_id, signature,
                       extra_params)
    THEN Response(FALSE, "Invalid signature", <<>>)
    ELSE Response(TRUE, "OK", invoice_id)

process_fail_callback(merchant_login, amount, invoice_id, signature, extra_params) ==
    IF ~verify_payment_secondary(merchant_login, amount, invoice_id,
                                 signature, extra_params)
    THEN Response(FALSE, "Invalid signature", <<>>)
    ELSE Response(TRUE, "FAIL", <<>>)

process_status_callback(merchant_login, amount, invoice_id, signature, extra_params) ==
    IF ~verify_payment_secondary(merchant_login, amount, invoice_id,
                                 signature, extra_params)
    THEN Response(FALSE, "Invalid signature", <<>>)
    ELSE Response(TRUE, "OK", invoice_id)

ShpPrefix == <<"S", "h", "p", "_">>

StartsWith(k, prefix) ==
    Len(k) >= Len(prefix) /\ SubSeq(k, 1, Len(prefix)) = prefix

\* {k[4:]: v for k, v in request_data.items() if k.startswith('Shp_')}
StripShp(items) ==
    LET shp == SelectSeq(items, LAMBDA kv : StartsWith(kv[1], ShpPrefix))
    IN  [k \in 1..Len(shp) |-> <<SubSeq(shp[k][1], 5, Len(shp[k][1])), shp[k][2]>>]

extract_callback_data(request) ==
    [merchant_login |-> request.MerchantLogin,
     amount |-> ParseFloat(request.Sum),
     invoice_id |-> request.InvId,
     signature |-> request.SignatureValue,
     extra_params |-> StripShp(request.items)]

handle_success_callback(request) ==
    LET data == extract_callback_data(request)
    IN  process_success_callback(data.merchant_login, data.amount,
            data.invoice_id, data.signature, data.extra_params)

handle_fail_callback(request) ==
    LET data == extract_callback_data(request)
    IN  process_fail_callback(data.merchant_login, data.amount,
            data.invoice_id, data.signature, data.extra_params)

handle_status_callback(request) ==
    LET data == extract_callback_data(request)
    IN  process_status_callback(data.merchant_login, data.amount,
            data.invoice_id, data.signature, data.extra_params)

\* The callbacks that reach the handler: built for one payment by a sender
\* who signs with some password, in the plain rendering of the values or in
\* the provider's (two decimals, upper-case digest), and then possibly
\* altered in one place on the way.
Passwords == {<<"p">>, <<"q">>}

RkConfigs ==
    [merchant_login : {<<"m">>}, password1 : Passwords, password2 : Passwords,
     test_password1 : {<<>>} \cup Passwords,
     test_password2 : {<<>>} \cup Passwords, use_sandbox : BOOLEAN]

Endpoints == {"success", "fail", "status"}

Styles == {"plain", "provider"}

ExtraKeys == {<<"a">>, <<"b">>}

ExtraValues == {<<"x">>, <<"y">>, <<"x", ":", "y">>}

ExtraItems == ExtraKeys \X ExtraValues

ExtraParams ==
    {<<>>} \cup {<<kv>> : kv \in ExtraItems}
           \cup {<<kv, kw>> : <<kv, kw>> \in
                    {p \in ExtraItems \X ExtraItems : p[1][1] # p[2][1]}}

SentLogin == <<"m">>

SentAmounts == {150}

SentInvoice == <<"i", "1">>

OtherLogins == {<<"m", "m">>}

OtherAmounts == {100}

OtherInvoices == {<<"i", "2">>}

\* The amount with two decimals, as the provider writes it.
TwoDecimals(amount) ==
    StrInt(amount \div 100) \o <<".">> \o
    <<DigitChars[((amount % 100) \div 10) + 1], DigitChars[(amount % 10) + 1]>>

SendCallback(endpoint, amount, password, extra_params, style) ==
    /\ request_data = NoRequest
    /\ LET signature == calculate_signature(SentLogin, amount, SentInvoice,
                                            password, extra_params)
       IN  request_data' =
              [endpoint |-> endpoint,
               MerchantLogin |-> SentLogin,
               Sum |-> IF style = "provider" THEN TwoDecimals(amount)
                       ELSE StrFloat(amount),
               InvId |-> SentInvoice,
               SignatureValue |-> IF style = "provider" THEN Upper(signature)
                                  ELSE signature,
               items |-> [k \in 1..Len(extra_params) |->
                            <<ShpPrefix \o extra_params[k][1],
                              extra_params[k][2]>>]]
    /\ signed' = [merchant_login |-> SentLogin, amount |-> amount,
                  invoice_id |-> SentInvoice, password |-> password,
                  extra_params |-> extra_params, altered |-> FALSE]
    /\ UNCHANGED <<rk_config, reply, payment_url, bot>>

AlterCallback ==
    /\ request_data # NoRequest
    /\ reply = NoReply
    /\ ~signed.altered
    /\ \/ \E m \in OtherLogins :
             request_data' = [request_data EXCEPT !.MerchantLogin = m]
       \/ \E a \in OtherAmounts :
             request_data' = [request_data EXCEPT !.Sum = StrFloat(a)]
       \/ \E i \in OtherInvoices :
             request_data' = [request_data EXCEPT !.InvId = i]
       \/ \E k \in 1..Len(request_data.items) :
             \E v \in ExtraValues \ {request_data.items[k][2]} :
                request_data' = [request_data EXCEPT !.items[k][2] = v]
       \/ \E k \in 1..Len(request_data.items) :
             \E key \in ExtraKeys :
                /\ \A j \in 1..Len(request_data.items) :
                      request_data.items[j][1] # ShpPrefix \o key
                /\ request_data' =
                      [request_data EXCEPT !.items[k][1] = ShpPrefix \o key]
    /\ signed' = [signed EXCEPT !.altered = TRUE]
    /\ UNCHANGED <<rk_config, reply, payment_url, bot>>

HandleSuccessCallback ==
    /\ request_data.endpoint = "success"
    /\ reply = NoReply
    /\ reply' = handle_success_callback(request_data)
    /\ UNCHANGED <<rk_config, request_data, signed, payment_url, bot>>

HandleFailCallback ==
    /\ request_data.endpoint = "fail"
    /\ reply = NoReply
    /\ reply' = handle_fail_callback(request_data)
    /\ UNCHANGED <<rk_config, request_data, signed, payment_url, bot>>

HandleStatusCallback ==
    /\ request_data.endpoint = "status"
    /\ reply = NoReply
    /\ reply' = handle_status_callback(request_data)
    /\ UNCHANGED <<rk_config, request_data, signed, payment_url, bot>>

CallbackDone ==
    /\ reply # NoReply
    /\ request_data' = NoRequest
    /\ signed' = NoSigned
    /\ reply' = NoReply
    /\ UNCHANGED <<rk_config, payment_url, bot>>

NextRobokassa ==
    \/ \E endpoint \in Endpoints, amount \in SentAmounts,
          password \in Passwords, extra_params \in ExtraParams,
          style \in Styles :
          SendCallback(endpoint, amount, password, extra_params, style)
    \/ AlterCallback
    \/ HandleSuccessCallback
    \/ HandleFailCallback
    \/ HandleStatusCallback
    \/ CallbackDone

InitRobokassa ==
    /\ tz = 0
    /\ InitBot
    /\ rk_config \in RkConfigs
    /\ request_data = NoRequest
    /\ signed = NoSigned
    /\ reply = NoReply
    /\ payment_url = NoUrl
    /\ InitMachine
    /\ InitAdapters

SpecRobokassa == InitRobokassa /\ [][NextRobokassa]_vars


\* ------------------------------------------------------ the payment URL
\* The names of the fixed query parameters; none begins with Shp_.
Param(name) == <<name>>

\* RobokassaCurrency.RUB.value
RUB == <<"R", "U", "B">>

\* A get_payment_url that signs without the extra parameters.
get_payment_url_unsigned_extras(amount, invoice_id, description, currency, email, is_test, extra_params) ==
    IF amount <= 0 \/ invoice_id = <<>>
    THEN [error |-> "ValueError", url_params |-> <<>>]
    ELSE [error |-> "none",
          url_params |->
             <<<<Param("MerchantLogin"), rk_config.merchant_login>>,
               <<Param("Sum"), StrFloat(amount)>>,
               <<Param("InvId"), invoice_id>>,
               <<Param("Description"), description>>,
               <<Param("SignatureValue"),
                 calculate_signature(rk_config.merchant_login, amount,
                                     invoice_id, get_password1, <<>>)>>,
               <<Param("IsTest"), is_test>>>> \o
             (IF currency # RUB THEN <<<<Param("Currency"), currency>>>>
              ELSE <<>>) \o
             (IF email # <<>> THEN <<<<Param("Email"), email>>>> ELSE <<>>) \o
             [k \in 1..Len(extra_params) |->
                 <<ShpPrefix \o extra_params[k][1], extra_params[k][2]>>]]

\* RobokassaPaymentHandler.get_payment_url, lines 207-247: the query
\* parameters of the URL, in the order in which url_params gets them.
get_payment_url(amount, invoice_id, description, currency, email, is_test, extra_params) ==
    IF amount <= 0 \/ invoice_id = <<>>
    THEN [error |-> "ValueError", url_params |-> <<>>]
    ELSE [error |-> "none",
          url_params |->
             <<<<Param("MerchantLogin"), rk_config.merchant_login>>,
               <<Param("Sum"), StrFloat(amount)>>,
               <<Param("InvId"), invoice_id>>,
               <<Param("Description"), description>>,
               <<Param("SignatureValue"),
                 calculate_signature(rk_config.merchant_login, amount,
                                     invoice_id, get_password1, extra_params)>>,
               <<Param("IsTest"), is_test>>>> \o
             (IF currency # RUB THEN <<<<Param("Currency"), currency>>>>
              ELSE <<>>) \o
             (IF email # <<>> THEN <<<<Param("Email"), email>>>> ELSE <<>>) \o
             [k \in 1..Len(extra_params) |->
                 <<ShpPrefix \o extra_params[k][1], extra_params[k][2]>>]]

UrlAmounts == SentAmounts \cup {0}

UrlInvoices == {SentInvoice, <<>>}

Currencies == {RUB, <<"U", "S", "D">>}

Emails == {<<>>, <<"e">>}

\* A caller asks for the URL of a payment.
GetPaymentUrl(amount, invoice_id, currency, email, extra_params) ==
    /\ payment_url = NoUrl
    /\ LET url == get_payment_url(amount, invoice_id, <<"d">>, currency,
                                  email, <<"0">>, extra_params)
       IN  payment_url' = [amount |-> amount, invoice_id |-> invoice_id,
                           extra_params |-> extra_params,
                           error |-> url.error,
                           url_params |-> url.url_params]
    /\ UNCHANGED <<rk_config, request_data, signed, reply, bot>>

\* The caller has redirected the payer.
UrlDone ==
    /\ payment_url # NoUrl
    /\ payment_url' = NoUrl
    /\ UNCHANGED <<rk_config, request_data, signed, reply, bot>>

NextPaymentUrl ==
    \/ \E amount \in UrlAmounts, invoice_id \in UrlInvoices,
          currency \in Currencies, email \in Emails,
          extra_params \in ExtraParams :
          GetPaymentUrl(amount, invoice_id, currency, email, extra_params)
    \/ UrlDone

SpecPaymentUrl == InitRobokassa /\ [][NextPaymentUrl]_vars

\* ------------------------------------------------------ gateway adapters
GatewayMethods == {"lolz", "cryptobot", "xrocet", "crystalpay"}

Failure(error) == AdapterResult(FALSE, "none", error)

Success(status) == AdapterResult(TRUE, status, "none")

\* LolzPayment.check_payment_status, lines 81-132
lolz_check_payment_status(response) ==
    IF response.raises THEN Failure("connection")
    ELSE IF response.code = 200
    THEN IF response.ok
         THEN Success(IF response.status = "paid" THEN "paid" ELSE "pending")
         ELSE Failure("format")
    ELSE IF response.code = 404 THEN Failure("not_found")
    ELSE Failure("http")

\* CrystalPayPayment.check_payment_status, lines 69-109
crystalpay_check_payment_status(response) ==
    IF response.raises THEN Failure("connection")
    ELSE IF response.code = 200
    THEN IF response.ok
         THEN LET status == IF response.status = "absent" THEN "notpayed"
                            ELSE response.status
              IN  Success(IF status = "payed" THEN "paid" ELSE "pending")
         ELSE Failure("api")
    ELSE Failure("http")

\* XRocetPayment.check_payment, lines 65-94: the generic status itself.
xrocet_check_payment(response) ==
    IF response.raises THEN "pending"
    ELSE IF response.code = 200
    THEN IF response.ok
         THEN LET status == IF response.status = "absent" THEN "active"
                            ELSE response.status
              IN  IF response.payments THEN "paid"
                  ELSE IF status = "active" THEN "pending"
                  ELSE "expired"
         ELSE "pending"
    ELSE "pending"

\* invoice_id.isdigit()
isdigit(text) ==
    /\ text # <<>>
    /\ \A k \in 1..Len(text) : \E d \in 1..Len(DigitChars) : DigitChars[d] = text[k]

CryptobotPrefix == <<"c", "r", "y", "p", "t", "o", "b", "o", "t", "_">>

\* line 270: the listed invoice is the one asked for.
ItemMatches(invoice, invoice_id) ==
    \/ invoice.invoice_id = invoice_id
    \/ /\ StartsWith(invoice.payload, CryptobotPrefix)
       /\ invoice.payload = invoice_id

CryptobotStatus(status) ==
    IF (IF status = "absent" THEN "active" ELSE status) = "paid"
    THEN "paid" ELSE "pending"

\* CryptoBotPayment.check_payment_status, lines 248-281: getInvoice for an
\* id of digits, then the search of the invoices that getInvoices lists.
cryptobot_check_payment_status(invoice_id, direct, listing) ==
    IF isdigit(invoice_id) /\ direct.raises THEN Failure("connection")
    ELSE IF isdigit(invoice_id) /\ direct.code = 200 /\ direct.ok
    THEN Success(CryptobotStatus(direct.status))
    ELSE IF listing.raises THEN Failure("connection")
    ELSE IF listing.code = 200
    THEN IF listing.ok
         THEN LET found == SelectSeq(listing.items,
                               LAMBDA invoice : ItemMatches(invoice, invoice_id))
              IN  IF found # <<>> THEN Success(CryptobotStatus(found[1].status))
                  ELSE Success("pending")
         ELSE Failure("api")
    ELSE Failure("http")

\* LolzPayment.create_invoice, lines 18-78
lolz_create_invoice(amount, response) ==
    LET requests == {"lolz/invoice"}
    IN  IF response.raises
        THEN [Failure("connection") EXCEPT !.requests = requests]
        ELSE IF response.code = 200
        THEN IF response.ok
             THEN [Success("none") EXCEPT !.invoice_id = response.id,
                                          !.requests = requests]
             ELSE [Failure("format") EXCEPT !.requests = requests]
        ELSE [Failure("http") EXCEPT !.requests = requests]

\* CrystalPayPayment.create_invoice, lines 14-66
crystalpay_create_invoice(amount, response) ==
    LET requests == {"crystalpay/invoice/create"}
    IN  IF response.raises
        THEN [Failure("connection") EXCEPT !.requests = requests]
        ELSE IF response.code = 200
        THEN IF response.ok
             THEN [Success("none") EXCEPT !.invoice_id = response.id,
                                          !.requests = requests]
             ELSE [Failure("api") EXCEPT !.requests = requests]
        ELSE [Failure("http") EXCEPT !.requests = requests]

\* round(a / b): the nearest whole number.
RoundDiv(a, b) == (2 * a + b) \div (2 * b)

\* CryptoBotPayment.get_exchange_rates, lines 155-204, with the cache empty.
get_exchange_rates(response) ==
    IF response.raises THEN [success |-> FALSE, rates |-> <<>>]
    ELSE IF response.code = 200 /\ response.ok
    THEN [success |-> TRUE,
          rates |-> SelectSeq(response.rates, LAMBDA rate : rate.is_valid)]
    ELSE [success |-> FALSE, rates |-> <<>>]

\* CryptoBotPayment.convert_rub_to_crypto, lines 207-245, for an asset of
\* precision 2: <<>> for None, else the amount in hundredths of the asset.
convert_rub_to_crypto(rub_amount, target_asset, response) ==
    LET rates_result == get_exchange_rates(response)
        usable == SelectSeq(rates_result.rates, LAMBDA rate :
                      /\ rate.source = target_asset
                      /\ rate.target = "RUB"
                      /\ rate.rate > 0
                      /\ rate.is_valid)
    IN  IF ~rates_result.success \/ usable = <<>> THEN <<>>
        ELSE <<RoundDiv(rub_amount, usable[1].rate)>>

\* CryptoBotPayment.create_invoice, lines 21-88; uuid is the generated part
\* of the payload.
cryptobot_create_invoice(amount, asset, uuid, rates_response, response) ==
    LET crypto_amount == convert_rub_to_crypto(amount, asset, rates_response)
        invoice_id == CryptobotPrefix \o uuid
        requests == {"cryptobot/getExchangeRates", "cryptobot/createInvoice"}
    IN  IF crypto_amount = <<>>
        THEN [Failure("rate") EXCEPT
                 !.requests = {"cryptobot/getExchangeRates"}]
        ELSE IF response.raises
        THEN [Failure("connection") EXCEPT !.requests = requests]
        ELSE IF response.code = 200
        THEN IF response.ok
             THEN [Success("none") EXCEPT
                      !.invoice_id = IF response.id # <<>> THEN response.id
                                     ELSE invoice_id,
                      !.payload = invoice_id,
                      !.crypto_amount = crypto_amount[1],
                      !.requests = requests]
             ELSE [Failure("api") EXCEPT !.requests = requests]
        ELSE [Failure("http") EXCEPT !.requests = requests]

\* xrocet_payment.py, lines 104, 109 and 112: the rate taken when the
\* price request gives none.
FallbackRate == 320

\* XRocetPayment.get_toncoin_to_rub_rate, lines 97-112
get_toncoin_to_rub_rate(response) ==
    IF response.raises THEN FallbackRate
    ELSE IF response.code = 200
    THEN IF response.rate = <<>> THEN FallbackRate ELSE response.rate[1]
    ELSE FallbackRate

\* XRocetPayment.create_invoice, lines 17-62: the division by a rate of 0
\* (convert_rub_to_toncoin, line 116) raises and create_invoice returns None
\* (line 62) before any request for an invoice; toncoin_amount is in
\* millionths (round(..., 6)), rub_amount in kopecks.
xrocet_create_invoice(amount, rate_response, response) ==
    LET rate == get_toncoin_to_rub_rate(rate_response)
        None == [Failure("none") EXCEPT !.none = TRUE]
        requests == {"coingecko/price", "xrocket/tg-invoices"}
    IN  IF rate = 0 THEN [None EXCEPT !.requests = {"coingecko/price"}]
        ELSE IF response.raises THEN [None EXCEPT !.requests = requests]
        ELSE IF response.code = 201 /\ response.ok
        THEN [Success("none") EXCEPT
                 !.invoice_id = response.id,
                 !.crypto_amount = RoundDiv(amount * 10000, rate),
                 !.requests = requests]
        ELSE [None EXCEPT !.requests = requests]

\* ------------------------------------------------------ providers
\* The status or state values a provider may send; "absent" for none.
ProviderStatuses == {"absent", "active", "paid", "payed", "expired", "other"}

\* How a request fares: answered, answered with an HTTP error, answered
\* with a body that reports an error, or not answered.
Nets == {"ok", "http", "refused", "raise"}

RemoteIds == {<<"7">>}

Uuids == {<<"a">>}

Assets == {"USDT"}

Rate(source, target, rate, is_valid) ==
    [source |-> source, target |-> target, rate |-> rate,
     is_valid |-> is_valid]

\* Rate tables of getExchangeRates.
RateTables ==
    {<<>>,
     <<Rate("USDT", "RUB", 90, TRUE)>>,
     <<Rate("USDT", "RUB", 90, FALSE)>>,
     <<Rate("USDT", "RUB", 0, TRUE)>>,
     <<Rate("TON", "RUB", 250, TRUE)>>,
     <<Rate("USDT", "USD", 1, TRUE), Rate("USDT", "RUB", 90, TRUE)>>}

\* Prices of the price request of get_toncoin_to_rub_rate.
TonRates == {<<>>, <<0>>, <<250>>}

MaxNewer == 101           \* invoices the merchant makes after the bot's

\* cryptobot_payment.py:264: params={"count": 100}
getInvoicesCount == 100

Answer(net) ==
    IF net = "raise" THEN HttpResponse(TRUE, 0, FALSE)
    ELSE IF net = "http" THEN HttpResponse(FALSE, 500, FALSE)
    ELSE IF net = "refused" THEN HttpResponse(FALSE, 200, FALSE)
    ELSE HttpResponse(FALSE, 200, TRUE)

\* What the rate request of create_invoice is answered.
RateResponses(payment_method) ==
    IF payment_method = "cryptobot"
    THEN {Answer(net) : net \in Nets \ {"ok"}} \cup
         {[Answer("ok") EXCEPT !.rates = rates] : rates \in RateTables}
    ELSE IF payment_method = "xrocet"
    THEN {Answer(net) : net \in Nets \ {"ok", "refused"}} \cup
         {[Answer("ok") EXCEPT !.rate = rate] : rate \in TonRates}
    ELSE {NoResponse}

\* What the request for a new invoice is answered: the provider answers a
\* made invoice with 201 (xRocket) or 200, with its id; CryptoBot's answer
\* may come without invoice_id.
CreateResponses(payment_method) ==
    {Answer(net) : net \in Nets \ {"ok"}} \cup
    {[Answer("ok") EXCEPT
         !.code = IF payment_method = "xrocet" THEN 201 ELSE 200,
         !.id = id] :
       id \in RemoteIds \cup (IF payment_method = "cryptobot" THEN {<<>>}
                              ELSE {})}

\* The answer to a lookup of an invoice the provider does not show: 404
\* from Lolz (lolz_payment.py:114) and xRocket, a body with error from
\* CrystalPay, a list without the invoice from CryptoBot.
NotFoundAnswer(payment_method) ==
    IF payment_method \in {"lolz", "xrocet"}
    THEN HttpResponse(FALSE, 404, FALSE)
    ELSE IF payment_method = "crystalpay" THEN Answer("refused")
    ELSE Answer("ok")

\* The answer to a lookup of the bot's invoice: getInvoices lists the
\* newest getInvoicesCount invoices of the merchant.
LookupAnswer(net, has_payments) ==
    IF net # "ok" THEN Answer(net)
    ELSE IF ~gateway.known THEN NotFoundAnswer(gateway.payment_method)
    ELSE [Answer("ok") EXCEPT
             !.status = gateway.status,
             !.payments = has_payments,
             !.items = IF gateway.payment_method = "cryptobot"
                          /\ gateway.newer < getInvoicesCount
                       THEN <<[invoice_id |-> gateway.remote_id,
                               payload |-> gateway.payload,
                               status |-> gateway.status]>>
                       ELSE <<>>]

\* ------------------------------------------------------ adapter calls
\* profile.py, lines 143-148: create_invoice of the chosen adapter.
create_invoice(payment_method, amount, asset, uuid, rate_response, response) ==
    IF payment_method = "cryptobot"
    THEN cryptobot_create_invoice(amount, asset, uuid, rate_response, response)
    ELSE IF payment_method = "xrocet"
    THEN xrocet_create_invoice(amount, rate_response, response)
    ELSE IF payment_method = "crystalpay"
    THEN crystalpay_create_invoice(amount, response)
    ELSE lolz_create_invoice(amount, response)

\* The result of create_invoice, as line 150 of profile.py sees it.
ResultKind(result) ==
    IF result.none THEN "None"
    ELSE IF result.success THEN "success" ELSE "failure"

\* process_payment_amount, lines 143-174, on the side of the gateway: the
\* adapter makes the invoice and the handler stores invoice_id and payload.
CreateInvoice(payment_method, amount, asset, uuid, rate_response, response) ==
    /\ gateway = NoGateway
    /\ LET result == create_invoice(payment_method, amount, asset, uuid,
                                    rate_response, response)
       IN  /\ adapter_call' = [op |-> "create_invoice",
                               payment_method |-> payment_method,
                               check_id |-> <<>>, asset |-> asset,
                               rate_response |-> rate_response,
                               response |-> response, result |-> result]
           /\ gateway' =
                 IF InvoiceCreated(ResultKind(result))
                 THEN [payment_method |-> payment_method,
                       invoice_id |-> result.invoice_id,
                       payload_id |-> result.payload,
                       known |-> FALSE,
                       remote_id |-> response.id,
                       payload |-> result.payload,
                       status |-> "active",
                       newer |-> 0]
                 ELSE gateway
    /\ UNCHANGED <<core, robokassa, machine, ratecache>>

\* The provider's lookups begin to show the invoice.
ProviderPublishes ==
    /\ gateway # NoGateway
    /\ ~gateway.known
    /\ gateway' = [gateway EXCEPT !.known = TRUE]
    /\ UNCHANGED <<core, robokassa, machine, adapter_call, ratecache>>

\* The invoice is paid, expires, or gets another status at the provider.
ProviderSetsStatus(status) ==
    /\ gateway.known
    /\ gateway.status # status
    /\ gateway' = [gateway EXCEPT !.status = status]
    /\ UNCHANGED <<core, robokassa, machine, adapter_call, ratecache>>

\* The merchant makes another invoice at the provider.
OtherInvoice ==
    /\ gateway.known
    /\ gateway.newer < MaxNewer
    /\ gateway' = [gateway EXCEPT !.newer = @ + 1]
    /\ UNCHANGED <<core, robokassa, machine, adapter_call, ratecache>>

\* process_single_payment, line 66
check_id(payment) ==
    IF payment.payment_method = "cryptobot" /\ payment.payload_id # <<>>
    THEN payment.payload_id
    ELSE payment.invoice_id

\* process_single_payment, lines 68-73: the status check of the adapter.
check_payment_status(payment, direct, listing) ==
    IF payment.payment_method = "xrocet"
    THEN Success(xrocet_check_payment(listing))
    ELSE IF payment.payment_method = "cryptobot"
    THEN cryptobot_check_payment_status(check_id(payment), direct, listing)
    ELSE IF payment.payment_method = "crystalpay"
    THEN crystalpay_check_payment_status(listing)
    ELSE lolz_check_payment_status(listing)

\* The loop checks the status of the stored invoice (lines 63-73).
CheckStatus(net, has_payments) ==
    /\ gateway # NoGateway
    /\ LET response == LookupAnswer(net, has_payments)
           direct == IF gateway.payment_method = "cryptobot"
                        /\ isdigit(check_id(gateway))
                     THEN response ELSE NoResponse
       IN  adapter_call' = [op |-> "check",
                            payment_method |-> gateway.payment_method,
                            check_id |-> check_id(gateway),
                            asset |-> "none",
                            rate_response |-> NoResponse,
                            response |-> response,
                            result |-> check_payment_status(gateway, direct,
                                                            response)]
    /\ UNCHANGED <<core, robokassa, machine, gateway, ratecache>>

TopUpAmounts == {10000}

NextGateway ==
    \/ \E payment_method \in GatewayMethods, amount \in TopUpAmounts,
          asset \in Assets, uuid \in Uuids :
          \E rate_response \in RateResponses(payment_method),
             response \in CreateResponses(payment_method) :
             CreateInvoice(payment_method, amount, asset, uuid,
                           rate_response, response)
    \/ ProviderPublishes
    \/ \E status \in ProviderStatuses : ProviderSetsStatus(status)
    \/ OtherInvoice
    \/ \E net \in Nets, has_payments \in BOOLEAN :
          CheckStatus(net, has_payments)

SpecGateway == Init /\ [][NextGateway]_vars

\* ------------------------------------------------------ the rate cache
\* One CryptoBotPayment and the coroutines that call its
\* get_exchange_rates; a coroutine runs from one await to the next.

\* cryptobot_payment.py:18: self._cache_ttl = 300
cache_ttl == 300

StartTime == 1000         \* time.time() when the adapter is made
MaxElapsed == 600         \* the seconds the clock runs on

\* time.time()
time_time == StartTime + now

\* The times that pass between two steps: short of the TTL, and the TTL.
Durations == {cache_ttl - 1, cache_ttl}

Elapse(d) ==
    /\ now + d <= MaxElapsed
    /\ now' = now + d
    /\ UNCHANGED <<tz, enabled_systems, ledger, ui, pending_payments, task,
                   notified, robokassa, machine, gateway, adapter_call,
                   ratecache>>

\* A cache that never goes out of date.
CacheFreshForEver(force_refresh, current_time) ==
    ~force_refresh /\ rates_cache # <<>>

\* line 148: not force_refresh and self._rates_cache and
\* (current_time - self._cache_timestamp) < self._cache_ttl
CacheFresh(force_refresh, current_time) ==
    /\ ~force_refresh
    /\ rates_cache # <<>>
    /\ current_time - cache_timestamp < cache_ttl

\* get_exchange_rates, lines 146-165: the answer from the cache, or the
\* request to the provider, which is awaited.
GetExchangeRates(c, force_refresh) ==
    /\ rate_calls[c].pc = "idle"
    /\ rate_calls' = [rate_calls EXCEPT ![c] =
          IF CacheFresh(force_refresh, time_time)
          THEN [pc |-> "done", current_time |-> time_time,
                force_refresh |-> force_refresh,
                result |-> [success |-> TRUE, rates |-> rates_cache,
                            source |-> "cache"]]
          ELSE [NoRateCall EXCEPT !.pc = "request",
                                  !.current_time = time_time,
                                  !.force_refresh = force_refresh]]
    /\ UNCHANGED <<core, robokassa, machine, gateway, adapter_call,
                   rates_cache, cache_timestamp, cache_written>>

\* A refresh that stores the rates and leaves the timestamp as it is.
CacheTimestampKept(current_time) == cache_timestamp

\* line 177: self._cache_timestamp = current_time
CacheTimestampStored(current_time) == current_time

\* lines 167-204: the provider's answer.  Rates that came with 200 and ok
\* are stored with the time at which the invocation began (lines 176-177,
\* no await between the two assignments) and returned; any other answer and
\* any exception return a failure and leave the cache as it is.
ExchangeRatesReply(c, response) ==
    /\ rate_calls[c].pc = "request"
    /\ LET rates_result == get_exchange_rates(response)
       IN  IF rates_result.success
           THEN /\ rates_cache' = rates_result.rates
                /\ cache_timestamp' =
                      CacheTimestampStored(rate_calls[c].current_time)
                /\ cache_written' =
                      [rates |-> rates_result.rates,
                       timestamp |-> rate_calls[c].current_time]
                /\ rate_calls' = [rate_calls EXCEPT ![c] =
                      [@ EXCEPT !.pc = "done",
                                !.result = [success |-> TRUE,
                                            rates |-> rates_result.rates,
                                            source |-> "provider"]]]
           ELSE /\ rate_calls' = [rate_calls EXCEPT ![c] =
                      [@ EXCEPT !.pc = "done",
                                !.result = [success |-> FALSE,
                                            rates |-> <<>>,
                                            source |-> "none"]]]
                /\ UNCHANGED <<rates_cache, cache_timestamp, cache_written>>
    /\ UNCHANGED <<core, robokassa, machine, gateway, adapter_call>>

\* The caller has its answer; the locals of the invocation are gone.
ExchangeRatesReturn(c) ==
    /\ rate_calls[c].pc = "done"
    /\ rate_calls' = [rate_calls EXCEPT ![c] = NoRateCall]
    /\ UNCHANGED <<core, robokassa, machine, gateway, adapter_call,
                   rates_cache, cache_timestamp, cache_written>>

NextRateCache ==
    \/ \E d \in Durations : Elapse(d)
    \/ \E c \in Callers, force_refresh \in BOOLEAN :
          GetExchangeRates(c, force_refresh)
    \/ \E c \in Callers, response \in RateResponses("cryptobot") :
          ExchangeRatesReply(c, response)
    \/ \E c \in Callers : ExchangeRatesReturn(c)

SpecRateCache == Init /\ [][NextRateCache]_vars

\* ------------------------------------------------------ the state machine
\* An application of events that passes over what the table does not list.
apply_event_ignoring(state, event) ==
    IF event \in DOMAIN ROBOKASSA_STATE_TRANSITIONS[state]
    THEN [state |-> ROBOKASSA_STATE_TRANSITIONS[state][event],
          error |-> FALSE]
    ELSE [state |-> state, error |-> FALSE]

\* The application of an event to a state: a listed (state, event) pair
\* leads to the state the table names, an unlisted one is rejected.
apply_event(state, event) ==
    IF event \in DOMAIN ROBOKASSA_STATE_TRANSITIONS[state]
    THEN [state |-> ROBOKASSA_STATE_TRANSITIONS[state][event],
          error |-> FALSE]
    ELSE [state |-> state, error |-> TRUE]

HandleEvent(event) ==
    /\ payment_state' = apply_event(payment_state, event).state
    /\ path' = IF payment_state' = "payment:initial"
               THEN <<"payment:initial">>
               ELSE IF \E k \in 1..Len(path) : path[k] = payment_state'
               THEN path
               ELSE Append(path, payment_state')
    /\ transition_error' = apply_event(payment_state, event).error
    /\ payment_event' = event
    /\ UNCHANGED <<core, robokassa, adapters>>

NextMachine == \E event \in RobokassaPaymentEvents : HandleEvent(event)

SpecMachine == Init /\ [][NextMachine]_vars

\* ------------------------------------------------------------------ claims
\* The calls of process_successful_payment leave one of these results.
SettleResults == {"payment", "None", "OperationalError"}

SettleDone(t) == task[t].pc = "done" /\ task[t].result \in SettleResults

\* The stored row of an invoice_id (the first, should there be several).
RowOf(invoice_id) ==
    LET ids == {n \in RowIds : payments[n].invoice_id = invoice_id}
    IN  IF ids = {} THEN NoRow
        ELSE payments[CHOOSE n \in ids : \A m \in ids : n <= m]

RECURSIVE SumCredits(_)
SumCredits(ids) ==
    IF ids = {} THEN 0
    ELSE LET i == CHOOSE x \in ids : TRUE
         IN  credited[i] * RowOf(i).amount + SumCredits(ids \ {i})

\* What settle has added to a user's balance, by the history.
CreditsOf(u) == SumCredits({i \in InvoiceIds : RowOf(i).user_id = u})

\* C1: in every sequence of process_successful_payment calls on one
\* invoice_id the owner is credited exactly once: a call that returns the
\* payment has credited it (once), every call after the credit returns
\* None, and the balance is the amount of each settled invoice, once.
C1_SettleCreditsExactlyOnce ==
    /\ \A i \in InvoiceIds : credited[i] <= 1
    /\ \A u \in Users : balance[u] = CreditsOf(u)
    /\ \A t \in HandlerTasks : SettleDone(t) =>
          LET i == task[t].invoice_id
          IN  /\ task[t].result = "payment" =>
                    credited[i] = 1 /\ RowOf(i).status = "paid"
              /\ task[t].result # "payment" /\ credited[i] >= 1 =>
                    task[t].result = "None"

\* C2: balance is credited at most once for an invoice_id, whatever the
\* interleaving of two overlapping process_successful_payment calls with
\* the other statements on the connection.
C2_CreditedAtMostOnce == \A i \in InvoiceIds : credited[i] <= 1

\* C3: settle is one atomic unit: in no committed state of the ledger (the
\* tables while no transaction is open) is an invoice paid without its
\* owner having been credited, or credited without being paid.
C3_CommittedLedgerConsistent ==
    ~in_transaction =>
        \A i \in InvoiceIds :
            (RowOf(i).status = "paid") <=> (credited[i] >= 1)

\* C4: process_successful_payment never writes for an invoice whose
\* expires_at has passed: neither its UPDATE to paid nor its credit runs
\* when datetime.now() is later than the payment's expires_at.
C4_ExpiredNeverSettled ==
    [][\A t \in Tasks :
          (task[t].pc \in {"s_status", "s_balance"} /\ task'[t].pc # task[t].pc)
              => ~Expired(task[t].row)]_vars

Terminal == {"paid", "expired", "cancelled"}

\* C5: a payment whose status is paid, expired or cancelled keeps that
\* status in every later step.
C5_TerminalStatusImmutable ==
    [][\A n \in RowIds :
          payments[n].status \in Terminal =>
              payments'[n].status = payments[n].status]_vars

\* C6: the step of the loop that receives a failed status check (success =
\* False, or an exception) changes no payment and no balance and goes on to
\* the next payment: the invoice is neither expired nor settled.
C6_GatewayFailureChangesNothing ==
    [][(task["loop"].pc = "gw_wait"
          /\ task'["loop"].pc # "gw_wait"
          /\ task'["loop"].status_result \in {"fail", "raise"})
        => /\ payments' = payments
           /\ balance' = balance
           /\ task'["loop"].pc = "next"]_vars

C6_Witness ==
    /\ task["loop"].pc = "next"
    /\ task["loop"].status_result \in {"fail", "raise"}
    /\ RowOf(task["loop"].invoice_id).status = "pending"

\* C7: every stored payment has total_amount = amount + fee_amount, and a
\* balance is the sum of the requested amounts of the owner's settled
\* invoices, each counted once: the fee is never credited.
C7_TotalStoredAmountCredited ==
    /\ \A n \in RowIds :
          payments[n].total_amount = payments[n].amount + payments[n].fee_amount
    /\ \A i \in InvoiceIds : credited[i] <= 1
    /\ \A u \in Users : balance[u] = CreditsOf(u)

C7_Witness ==
    \E n \in RowIds :
        /\ payments[n].status = "paid"
        /\ payments[n].fee_amount > 0
        /\ payments[n].total_amount > payments[n].amount
        /\ credited[payments[n].invoice_id] = 1
        /\ balance[payments[n].user_id] = payments[n].amount

\* C8: update_payment_status(invoice_id, "expired") of the loop changes a
\* status only from pending, and on a payment that is already expired it
\* changes nothing and reports no transition.
C8_MarkExpiredOnlyFromPending ==
    [][(task["loop"].pc = "next" /\ task'["loop"].pc = "e_commit")
        => /\ \A n \in RowIds :
                 payments'[n].status # payments[n].status
                     => payments[n].status = "pending"
           /\ RowOf(task'["loop"].invoice_id).status = "expired"
                 => payments' = payments /\ task'["loop"].rowcount = 0]_vars

\* Pending, and expires_at (a local datetime) strictly later than now.
PendingNotExpired(r) == r.status = "pending" /\ r.expires_at > LocalNow

\* C9: get_pending_payments returns exactly the payments that are pending
\* and whose expires_at is strictly later than now.
C9_ListPendingExact ==
    [][(task["loop"].pc = "idle" /\ task'["loop"].pc = "next")
        => pending_payments' = SelectSeq(payments, PendingNotExpired)]_vars

\* C10: invoice_id is unique in every state of the ledger; the INSERT of
\* create_payment adds the payment as a pending row, and for an invoice_id
\* that is already stored it raises IntegrityError and changes no payment
\* and no balance.
C10_CreateUniqueInvoiceId ==
    /\ [](\A n, m \in RowIds :
            n # m => payments[n].invoice_id # payments[m].invoice_id)
    /\ [][\A t \in HandlerTasks :
            (task[t].pc = "c_insert" /\ task'[t].pc # "c_insert") =>
               IF \E n \in RowIds : payments[n].invoice_id = task[t].invoice_id
               THEN /\ payments' = payments
                    /\ balance' = balance
                    /\ task'[t].result = "IntegrityError"
               ELSE /\ payments' = Append(payments, task[t].payment)
                    /\ payments'[Len(payments')].status = "pending"
                    /\ payments'[Len(payments')].invoice_id = task[t].invoice_id
                    /\ balance' = balance]_vars

C10_Witness ==
    \E t \in HandlerTasks :
        /\ task[t].pc = "done"
        /\ task[t].result = "IntegrityError"
        /\ RowOf(task[t].invoice_id) # NoRow
        /\ Len(payments) = 2

\* C11: get_user_active_payment(user_id) returns a pending, unexpired payment
\* of that user whenever the user has one, and no row when the user has none.
C11_ActivePaymentFound ==
    \A u \in Users :
        LET r == get_user_active_payment(u)
            has == \E n \in RowIds : /\ payments[n].user_id = u
                                     /\ PendingNotExpired(payments[n])
        IN  /\ has => r # NoRow /\ r.user_id = u /\ PendingNotExpired(r)
            /\ ~has => r = NoRow

\* What the handler of the request in flight verifies, beside what its
\* sender signed.
Verified == extract_callback_data(request_data)

HandlerPassword ==
    IF request_data.endpoint = "success" THEN get_password1 ELSE get_password2

EntrySet(extra_params) == {extra_params[k] : k \in 1..Len(extra_params)}

\* One entry of the map differs (its key or its value), the others agree.
OneEntryChanged(old, new) ==
    /\ Len(old) = Len(new)
    /\ Cardinality(EntrySet(old) \ EntrySet(new)) = 1
    /\ Cardinality(EntrySet(new) \ EntrySet(old)) = 1

\* How many of merchant_login, amount, invoice_id, password and the entries
\* of extra_params differ between signing and verifying (2: more than one
\* entry).
ChangedInputs ==
    (IF Verified.merchant_login # signed.merchant_login THEN 1 ELSE 0)
    + (IF Verified.amount # signed.amount THEN 1 ELSE 0)
    + (IF Verified.invoice_id # signed.invoice_id THEN 1 ELSE 0)
    + (IF HandlerPassword # signed.password THEN 1 ELSE 0)
    + (IF EntrySet(Verified.extra_params) = EntrySet(signed.extra_params)
       THEN 0
       ELSE IF OneEntryChanged(signed.extra_params, Verified.extra_params)
            THEN 1 ELSE 2)

\* C12: a digest of calculate_signature verifies over the same
\* (merchant_login, amount, invoice_id, password, extra_params), and does not
\* verify when exactly one of them, or one entry of extra_params, is changed.
C12_VerifyFlipsOnAnyChange ==
    reply # NoReply =>
        /\ ChangedInputs = 0 => reply.is_valid
        /\ ChangedInputs = 1 => ~reply.is_valid

SignedDigest(extra_params) ==
    calculate_signature(signed.merchant_login, signed.amount,
                        signed.invoice_id, signed.password, extra_params)

\* C13: two extra_params that hold the same key/value pairs give the same
\* digest whatever their insertion order, and the values are appended in
\* ascending order of their keys.
C13_SignatureOrderIndependent ==
    request_data # NoRequest =>
        \A extra_params \in ExtraParams :
            EntrySet(extra_params) = EntrySet(signed.extra_params) =>
                /\ SignedDigest(extra_params) = Lower(request_data.SignatureValue)
                /\ LET keys == SignatureKeys(extra_params)
                   IN  \A j, k \in 1..Len(keys) :
                           j < k => StrLess(keys[j], keys[k])

C13_Witness ==
    /\ Len(signed.extra_params) = 2
    /\ StrLess(signed.extra_params[2][1], signed.extra_params[1][1])
    /\ ~signed.altered
    /\ reply.is_valid

\* C14: a success callback verifies only with a digest made with
\* get_password1(), a fail or status callback only with one made with
\* get_password2(); when the two differ, a digest made with the other one
\* is answered "Invalid signature".
C14_SecretsNotInterchangeable ==
    reply # NoReply =>
        /\ reply.is_valid =>
              signed.password = (IF request_data.endpoint = "success"
                                 THEN get_password1 ELSE get_password2)
        /\ get_password1 # get_password2 =>
              /\ (request_data.endpoint = "success"
                    /\ signed.password = get_password2)
                 => reply = Response(FALSE, "Invalid signature", <<>>)
              /\ (request_data.endpoint \in {"fail", "status"}
                    /\ signed.password = get_password1)
                 => reply = Response(FALSE, "Invalid signature", <<>>)

C14_Witness ==
    /\ request_data.endpoint \in {"fail", "status"}
    /\ ~signed.altered
    /\ get_password1 # get_password2
    /\ signed.password = get_password1
    /\ rk_config.use_sandbox
    /\ reply = Response(FALSE, "Invalid signature", <<>>)

\* The digest of the request is the one calculate_signature gives for the
\* fields of the request and this password.
DigestMatches(password) ==
    Lower(request_data.SignatureValue) =
        Lower(calculate_signature(Verified.merchant_login, Verified.amount,
                  Verified.invoice_id, password, Verified.extra_params))

\* C15: a success callback whose digest verifies is answered
\* (True, "OK" + invoice_id); a success, fail or status callback whose
\* digest does not verify is answered (False, "Invalid signature"); handling
\* a callback changes no payment and no balance.
C15_CallbackAcknowledgement ==
    /\ [](reply # NoReply =>
            /\ (request_data.endpoint = "success" /\ DigestMatches(get_password1))
                  => reply = Response(TRUE, "OK", request_data.InvId)
            /\ ~DigestMatches(HandlerPassword)
                  => reply = Response(FALSE, "Invalid signature", <<>>))
    /\ [][(reply = NoReply /\ reply' # NoReply)
            => payments' = payments /\ balance' = balance]_vars

C15_Witness ==
    /\ request_data.endpoint = "success"
    /\ request_data.SignatureValue.upper
    /\ reply = Response(TRUE, "OK", SentInvoice)

\* The loop is inside process_single_payment, past the check of line 47.
Processing ==
    task["loop"].pc \in {"e_commit", "gw_wait", "s_begin", "s_select",
                         "s_status", "s_balance", "s_commit"}

\* C16: the loop passes over a listed payment whose gateway is not enabled:
\* that step makes no status check and changes no payment, balance or
\* notification, and the loop never processes such a payment.
C16_DisabledGatewaySkipped ==
    /\ [](Processing =>
             task["loop"].payment.payment_method \in enabled_systems)
    /\ [][(/\ task["loop"].pc = "next"
           /\ pending_payments' # pending_payments
           /\ Head(pending_payments).payment_method \notin enabled_systems)
          => /\ payments' = payments
             /\ balance' = balance
             /\ notified' = notified
             /\ task'["loop"].pc = "next"]_vars

C16_Witness ==
    /\ enabled_systems = {}
    /\ task["loop"].pc = "next"
    /\ task["loop"].result = "skipped"
    /\ RowOf(task["loop"].invoice_id).status = "pending"
    /\ Expired(RowOf(task["loop"].invoice_id))

\* C17: the owner and the admins are notified of a success only in the step
\* in which process_successful_payment returned the payment to the loop, the
\* owner of an expiry only when update_payment_status changed a row; no
\* invoice gets more than one notification of either kind, or both kinds.
C17_NotifiedOnlyOnTransition ==
    /\ [](\A i \in InvoiceIds :
             /\ notified[i].success <= 1
             /\ notified[i].expired <= 1
             /\ notified[i].success + notified[i].expired <= 1
             /\ notified[i].admin = notified[i].success)
    /\ [][\A i \in InvoiceIds :
             /\ notified'[i].success > notified[i].success =>
                   /\ task["loop"].pc = "s_commit"
                   /\ task["loop"].invoice_id = i
                   /\ task'["loop"].result = "payment"
             /\ notified'[i].expired > notified[i].expired =>
                   /\ task["loop"].pc = "e_commit"
                   /\ task["loop"].invoice_id = i
                   /\ StatusChanged(task["loop"].rowcount)]_vars

C17_Witness ==
    \E i, j \in InvoiceIds :
        /\ notified[i] = [success |-> 1, admin |-> 1, expired |-> 0]
        /\ notified[j] = [success |-> 0, admin |-> 0, expired |-> 1]

\* C18: unless the task is cancelled, the loop always comes back to its
\* sleep and always starts another cycle, whatever failed in the cycle.
C18_LoopNeverStops ==
    /\ (task["loop"].pc \notin {"idle", "cancelled"})
          ~> (task["loop"].pc \in {"idle", "cancelled"})
    /\ (task["loop"].pc = "idle")
          ~> (task["loop"].pc \in {"next", "cancelled"})

C18_Witness ==
    /\ task["loop"].pc = "idle"
    /\ task["loop"].result = "Exception"
    /\ \E i \in InvoiceIds : RowOf(i).status = "pending"

\* The loop's step ended in a failure: of the adapter, of the ledger, or an
\* exception of process_single_payment itself.
Failed(loop) ==
    \/ loop.status_result \in {"fail", "raise"}
    \/ loop.result \in {"OperationalError", "Exception"}

\* C19: a failure while one payment is processed sends the loop on to the
\* next listed payment: the list of the cycle loses a payment only when the
\* loop takes it, and the cycle ends only when the list is exhausted.
C19_FailureDoesNotStopCycle ==
    [][(/\ task["loop"].pc \notin {"idle", "cancelled"}
        /\ task'["loop"] # task["loop"]
        /\ task'["loop"].pc # "cancelled")
       => /\ task'["loop"].pc = "idle" =>
                task["loop"].pc = "next" /\ pending_payments = <<>>
          /\ pending_payments' # pending_payments =>
                /\ task["loop"].pc = "next"
                /\ pending_payments' = Tail(pending_payments)
          /\ Failed(task'["loop"]) => task'["loop"].pc = "next"]_vars

C19_Witness ==
    /\ task["loop"].pc = "next"
    /\ Failed(task["loop"])
    /\ pending_payments # <<>>
    /\ GatewayEnabled(Head(pending_payments))
    /\ Head(pending_payments).invoice_id # task["loop"].invoice_id

\* C20: the cancellation of the loop's task never interrupts a settlement
\* that has read its invoice as pending: it runs on to its commit.
C20_CancelNeverInterruptsSettle ==
    [][task["loop"].pc \in {"s_status", "s_balance", "s_commit"}
          => task'["loop"].pc # "cancelled"]_vars

\* The states that only a reset leaves.
Recoverable == {"payment:failed", "payment:cancelled", "payment:expired"}

\* C23: in the transition table PAYMENT_FINISHED is the only state with no
\* outgoing transition, and PAYMENT_FAILED, PAYMENT_CANCELLED and
\* PAYMENT_EXPIRED have the one transition RESET to PAYMENT_INITIAL; a
\* payment leaves those three states by no other event and never leaves
\* PAYMENT_FINISHED.
C23_FinishedTerminalOthersReset ==
    /\ [](\A state \in RobokassaPaymentStates :
             /\ (DOMAIN ROBOKASSA_STATE_TRANSITIONS[state] = {})
                    <=> (state = "payment:finished")
             /\ state \in Recoverable =>
                    /\ DOMAIN ROBOKASSA_STATE_TRANSITIONS[state] = {"reset"}
                    /\ ROBOKASSA_STATE_TRANSITIONS[state]["reset"]
                           = "payment:initial")
    /\ [][payment_state' # payment_state =>
             /\ payment_state # "payment:finished"
             /\ payment_state \in Recoverable =>
                    /\ payment_event' = "reset"
                    /\ payment_state' = "payment:initial"]_vars

C23_Witness ==
    /\ payment_state = "payment:initial"
    /\ payment_event = "reset"
    /\ ~transition_error

\* C24: an event applied to a state whose row does not list it leaves the
\* state as it is and reports an error; a listed event leads to the state
\* the table names, without an error.
C24_IllegalTransitionRejected ==
    [][IF payment_event' \in DOMAIN ROBOKASSA_STATE_TRANSITIONS[payment_state]
       THEN /\ payment_state' =
                   ROBOKASSA_STATE_TRANSITIONS[payment_state][payment_event']
            /\ ~transition_error'
       ELSE /\ payment_state' = payment_state
            /\ transition_error']_vars

C24_Witness ==
    /\ payment_state = "payment:finished"
    /\ payment_event = "reset"
    /\ transition_error

\* What create_invoice returns when the gateway made no invoice.
NoInvoice == {"None", "failure"}

\* C25: when create_invoice returns None or success False the handler ends
\* without an invoice id: that step changes no payment and no balance and
\* sends no payment message, and every row of payments belongs to an
\* invoice the gateway did create.
C25_FailedCreationPersistsNothing ==
    /\ [](\A t \in HandlerTasks :
             task[t].invoice_result \in NoInvoice =>
                 task[t].pc = "done" /\ task[t].invoice_id = "none")
    /\ [](\A r \in RowIds : payments[r].invoice_id \in issued)
    /\ [][\A t \in HandlerTasks :
             (task[t].pc = "c_gateway"
                 /\ task'[t].invoice_result \in NoInvoice)
             => /\ payments' = payments
                /\ balance' = balance
                /\ issued' = issued]_vars

C25_Witness ==
    \E t \in HandlerTasks :
        /\ task[t].result = "AttributeError"
        /\ task[t].invoice_result = "None"
        /\ Len(payments) = 1
        /\ ~in_transaction

\* C28: after a cycle in which get_pending_payments raised, the loop sleeps
\* the back-off of 30 s; after a cycle without failure, the 15 s.
C28_BackoffAfterFailedCycle ==
    (task["loop"].pc = "idle" /\ task["loop"].sleep # 0) =>
        task["loop"].sleep = (IF task["loop"].result = "Exception"
                              THEN BackoffSleep ELSE NormalSleep)

\* The step is one of the loop's coroutine.
LoopStep == task'["loop"] # task["loop"]

\* The rows of payments but for the one of invoice_id are left as they are.
OnlyRowChanged(invoice_id) ==
    /\ Len(payments') = Len(payments)
    /\ \A r \in RowIds :
          payments[r].invoice_id # invoice_id => payments'[r] = payments[r]

\* C29: a step of the loop changes payments or balances only to mark the
\* payment it has taken expired, when its expires_at has passed, or to
\* settle the payment for which the gateway answered paid; on any other
\* answer of the gateway the step changes nothing of the ledger and the
\* loop goes on to the next payment.
C29_LoopWritesOnlyOnExpiryOrPaid ==
    /\ [][(LoopStep /\ (payments' # payments \/ balance' # balance)) =>
             \/ /\ task["loop"].pc = "next"
                /\ Expired(Head(pending_payments))
                /\ OnlyRowChanged(Head(pending_payments).invoice_id)
                /\ balance' = balance
             \/ /\ task["loop"].pc \in {"s_status", "s_balance"}
                /\ task["loop"].status_result = "paid"
                /\ OnlyRowChanged(task["loop"].invoice_id)]_vars
    /\ [][(task["loop"].pc = "gw_wait"
              /\ task'["loop"].status_result \in StatusResults \ {"paid"})
          => /\ ledger' = ledger
             /\ task'["loop"].pc = "next"]_vars

C29_Witness ==
    /\ task["loop"].pc = "next"
    /\ task["loop"].status_result = "expired"
    /\ RowOf(task["loop"].invoice_id).status = "pending"
    /\ \E i \in InvoiceIds : credited[i] = 1

\* The values of at most two extra parameters, in ascending order of keys.
ValuesByKey(extra_params) ==
    IF Len(extra_params) = 2
          /\ StrLess(extra_params[2][1], extra_params[1][1])
    THEN <<extra_params[2][2], extra_params[1][2]>>
    ELSE [k \in 1..Len(extra_params) |-> extra_params[k][2]]

\* C27: the SignatureValue of the URL is the digest of merchant_login,
\* amount, invoice_id and get_password1() followed by the values of the
\* extra parameters in ascending order of their keys, joined by colons; it
\* is calculate_signature of those inputs; the URL carries every extra
\* parameter under Shp_ and its key, and what extract_callback_data reads
\* from the URL's parameters verifies with the primary secret.
C27_PaymentUrlSigned ==
    (payment_url # NoUrl /\ payment_url.error = "none") =>
        LET url_params == payment_url.url_params
            SignatureValue == Lookup(url_params, Param("SignatureValue"))
            data == extract_callback_data(
                        [MerchantLogin |-> Lookup(url_params, Param("MerchantLogin")),
                         Sum |-> Lookup(url_params, Param("Sum")),
                         InvId |-> Lookup(url_params, Param("InvId")),
                         SignatureValue |-> SignatureValue,
                         items |-> url_params])
        IN  /\ SignatureValue = Md5HexDigest(Join(
                   <<rk_config.merchant_login, StrFloat(payment_url.amount),
                     payment_url.invoice_id, get_password1>>
                   \o ValuesByKey(payment_url.extra_params)))
            /\ SignatureValue = calculate_signature(
                   rk_config.merchant_login, payment_url.amount,
                   payment_url.invoice_id, get_password1,
                   payment_url.extra_params)
            /\ \A k \in 1..Len(payment_url.extra_params) :
                  <<ShpPrefix \o payment_url.extra_params[k][1],
                    payment_url.extra_params[k][2]>> \in EntrySet(url_params)
            /\ data.extra_params = payment_url.extra_params
            /\ data.amount = payment_url.amount
            /\ verify_payment(data.merchant_login, data.amount,
                              data.invoice_id, data.signature,
                              data.extra_params)

C27_Witness ==
    /\ payment_url.error = "none"
    /\ Len(payment_url.extra_params) = 2
    /\ StrLess(payment_url.extra_params[2][1], payment_url.extra_params[1][1])
    /\ payment_url.extra_params[1][2] # payment_url.extra_params[2][2]
    /\ get_password1 # get_password2
    /\ Len(payment_url.url_params) = 10

\* A step in which the loop has an adapter check the stored invoice.
StatusChecked ==
    /\ adapter_call' # adapter_call
    /\ adapter_call'.op = "check"

\* C21: for every gateway adapter, a status check for an invoice that the
\* provider does not show (yet) returns the generic status pending: it
\* returns no failure result (and so has not raised).
C21_UnknownInvoiceIsPending ==
    [][(/\ StatusChecked
        /\ ~gateway.known
        /\ adapter_call'.response = NotFoundAnswer(gateway.payment_method))
       => /\ adapter_call'.result.success
          /\ adapter_call'.result.status = "pending"]_vars

\* The status values an adapter's decoding names: Lolz "paid", CrystalPay
\* "payed" and the default "notpayed", CryptoBot "paid" and the default
\* "active", xRocket "active" and, as the rest, the provider's "expired".
Recognised(payment_method) ==
    IF payment_method = "crystalpay" THEN {"payed", "absent"}
    ELSE IF payment_method = "xrocet" THEN {"active", "absent", "expired"}
    ELSE IF payment_method = "cryptobot" THEN {"paid", "active", "absent"}
    ELSE {"paid"}

\* The provider has answered the check with the invoice and its status.
StatusDecoded ==
    /\ StatusChecked
    /\ gateway.known
    /\ ~adapter_call'.response.raises
    /\ adapter_call'.response.code = 200
    /\ adapter_call'.response.ok
    /\ gateway.payment_method = "cryptobot"
          => adapter_call'.response.items # <<>>

\* C22: each adapter decodes every provider status to exactly one of
\* pending, paid and expired, and a status that the adapter does not
\* recognise (with no payment listed) to pending, never to paid or expired.
C22_StatusDecodingConservative ==
    [][StatusDecoded
       => /\ adapter_call'.result.success
          /\ adapter_call'.result.status \in {"pending", "paid", "expired"}
          /\ (/\ adapter_call'.response.status
                    \notin Recognised(gateway.payment_method)
              /\ ~adapter_call'.response.payments)
             => adapter_call'.result.status = "pending"]_vars

\* A step in which the handler has an adapter create an invoice.
InvoiceRequested ==
    /\ adapter_call' # adapter_call
    /\ adapter_call'.op = "create_invoice"

\* No valid rate from the settlement asset to RUB can be had: the rate
\* request fails, or its answer has no valid positive rate for the asset.
RateUnavailable(call) ==
    \/ call.rate_response.raises
    \/ call.rate_response.code # 200
    \/ IF call.payment_method = "cryptobot"
       THEN \/ ~call.rate_response.ok
            \/ \A k \in 1..Len(call.rate_response.rates) :
                  LET rate == call.rate_response.rates[k]
                  IN  ~(/\ rate.source = call.asset
                        /\ rate.target = "RUB"
                        /\ rate.rate > 0
                        /\ rate.is_valid)
       ELSE \/ call.rate_response.rate = <<>>
            \/ call.rate_response.rate[1] <= 0

CreationRequests == {"cryptobot/createInvoice", "xrocket/tg-invoices"}

\* C26: an adapter that settles in an asset other than RUB (cryptobot,
\* xrocet) fails create_invoice, without sending the request that creates
\* the invoice, whenever no valid rate from the asset to RUB can be had.
C26_NoRateNoInvoice ==
    [][(/\ InvoiceRequested
        /\ adapter_call'.payment_method \in {"cryptobot", "xrocet"}
        /\ RateUnavailable(adapter_call'))
       => /\ ~InvoiceCreated(ResultKind(adapter_call'.result))
          /\ adapter_call'.result.requests \cap CreationRequests = {}]_vars

\* The provider holds the invoice as paid and answers the check.
PaidAtProvider(call) ==
    /\ ~call.response.raises
    /\ call.response.code = 200
    /\ call.response.ok
    /\ IF call.payment_method = "xrocet" THEN call.response.payments
       ELSE IF call.payment_method = "crystalpay"
       THEN call.response.status = "payed"
       ELSE call.response.status = "paid"

\* C30: the loop asks the adapter with the stored payload_id for cryptobot
\* and with the invoice_id for every other gateway, and under that key the
\* adapter finds the invoice it created: an invoice that the provider holds
\* as paid is reported paid.
C30_CorrelationKeyFindsInvoice ==
    [][StatusChecked
       => /\ adapter_call'.check_id =
                IF gateway.payment_method = "cryptobot"
                THEN gateway.payload_id ELSE gateway.invoice_id
          /\ (gateway.known /\ PaidAtProvider(adapter_call'))
             => adapter_call'.result.status = "paid"]_vars

\* C33: in the transition table PAYMENT_REFUND_PENDING is entered only from
\* PAYMENT_CONFIRMED by INITIATE_REFUND and PAYMENT_REFUNDED only from
\* PAYMENT_REFUND_PENDING, a failed refund returns to PAYMENT_CONFIRMED, and
\* a payment enters the two refund states in no other way.
C33_RefundOnlyFromConfirmed ==
    /\ [](/\ \A state \in RobokassaPaymentStates :
              \A event \in DOMAIN ROBOKASSA_STATE_TRANSITIONS[state] :
                 LET target == ROBOKASSA_STATE_TRANSITIONS[state][event]
                 IN  /\ target = "payment:refund_pending" =>
                            /\ state = "payment:confirmed"
                            /\ event = "initiate_refund"
                     /\ target = "payment:refunded" =>
                            state = "payment:refund_pending"
          /\ ROBOKASSA_STATE_TRANSITIONS["payment:refund_pending"]
                ["refund_failed"] = "payment:confirmed")
    /\ [][payment_state' # payment_state =>
             /\ payment_state' = "payment:refund_pending" =>
                    /\ payment_state = "payment:confirmed"
                    /\ payment_event' = "initiate_refund"
             /\ payment_state' = "payment:refunded" =>
                    payment_state = "payment:refund_pending"
             /\ (/\ payment_state = "payment:refund_pending"
                 /\ payment_event' = "refund_failed") =>
                    payment_state' = "payment:confirmed"]_vars

C33_Witness ==
    /\ payment_state = "payment:confirmed"
    /\ payment_event = "refund_failed"
    /\ ~transition_error

\* The states of a payment that succeeds, in the order of the spec.
HappyPath ==
    <<"payment:initial", "payment:pending", "payment:validation",
      "payment:created", "payment:processing", "payment:awaiting_callback",
      "payment:completed", "payment:confirmed">>

\* C34: a payment that is in PAYMENT_FINISHED has been, since it was last
\* in PAYMENT_INITIAL, in pending, validation, created, processing,
\* awaiting_callback, completed and confirmed, in that order and before any
\* other state; PAYMENT_COMPLETED is entered only from
\* PAYMENT_AWAITING_CALLBACK by PAYMENT_SUCCESS_CALLBACK, and PAYMENT_EXPIRED
\* only from PAYMENT_AWAITING_CALLBACK.
C34_FinishedOnlyAlongHappyPath ==
    /\ [](payment_state = "payment:finished" =>
             /\ Len(path) > Len(HappyPath)
             /\ SubSeq(path, 1, Len(HappyPath)) = HappyPath)
    /\ [][payment_state' # payment_state =>
             /\ payment_state' = "payment:completed" =>
                    /\ payment_state = "payment:awaiting_callback"
                    /\ payment_event' = "payment_success_callback"
             /\ payment_state' = "payment:expired" =>
                    payment_state = "payment:awaiting_callback"]_vars

C34_Witness ==
    /\ payment_state = "payment:finished"
    /\ path = HappyPath \o <<"payment:refund_pending", "payment:refunded",
                             "payment:finished">>

\* The states that transitions of the table lead to from a set of states,
\* in any number of steps.
RECURSIVE ReachableFrom(_)
ReachableFrom(states) ==
    LET next == states \cup
                {ROBOKASSA_STATE_TRANSITIONS[state][event] :
                    <<state, event>> \in
                       {pair \in states \X RobokassaPaymentEvents :
                           pair[2] \in DOMAIN
                              ROBOKASSA_STATE_TRANSITIONS[pair[1]]}}
    IN  IF next = states THEN states ELSE ReachableFrom(next)

\* C40: in the transition table every state is reachable from
\* PAYMENT_INITIAL, every state other than PAYMENT_FINISHED has an outgoing
\* transition, and PAYMENT_FINISHED is reachable from every state, so also
\* from the state a payment is in: the machine has no dead end other than
\* PAYMENT_FINISHED.
C40_NoDeadEndButFinished ==
    /\ ReachableFrom({"payment:initial"}) = RobokassaPaymentStates
    /\ \A state \in RobokassaPaymentStates \ {"payment:finished"} :
          DOMAIN ROBOKASSA_STATE_TRANSITIONS[state] # {}
    /\ \A state \in RobokassaPaymentStates :
          "payment:finished" \in ReachableFrom({state})
    /\ payment_state \in ReachableFrom({"payment:initial"})
    /\ "payment:finished" \in ReachableFrom({payment_state})

C40_Witness ==
    /\ payment_state = "payment:cancelled"
    /\ payment_event = "cancel_payment"
    /\ ~transition_error
    /\ "payment:finished" \in ReachableFrom({payment_state})

\* C38: a call of process_successful_payment that returns None (the invoice
\* is missing or not pending) leaves no transaction open, and no later call,
\* made when the one before has returned, fails on the ledger: a following
\* settle of a pending invoice begins its transaction and credits the owner.
C38_NoOpSettleLeavesLedgerReady ==
    \A t \in HandlerTasks :
       SettleDone(t) =>
          /\ task[t].result = "None" => ~in_transaction
          /\ task[t].result # "OperationalError"

\* The invoice is pending although its expires_at has passed.
Overdue(i) ==
    /\ RowOf(i).status = "pending"
    /\ Expired(RowOf(i))
    /\ GatewayEnabled(RowOf(i))

\* C36: every invoice of an enabled gateway that is still pending when its
\* expires_at has passed is eventually moved out of pending by the loop
\* while cycles keep running, also when it expires between two cycles: no
\* invoice stays pending for ever after its expiry.
C36_OverdueEventuallyExpired ==
    \A i \in InvoiceIds : Overdue(i) ~> (RowOf(i).status # "pending")

\* The loop has the gateway's answer paid for a pending invoice that has not
\* expired, and goes on to process_successful_payment.
PaidReported(i) ==
    /\ task["loop"].pc = "s_begin"
    /\ task["loop"].invoice_id = i
    /\ task["loop"].status_result = "paid"
    /\ RowOf(i).status = "pending"
    /\ ~Expired(RowOf(i))

\* C35: a pending invoice of an enabled gateway for which the gateway
\* reports paid, at a check made before expires_at, is eventually settled
\* while cycles keep running: its status becomes paid and its owner is
\* credited (unless the owner cancels it).
C35_PaidEventuallySettled ==
    \A i \in InvoiceIds :
       PaidReported(i) ~> \/ RowOf(i).status = "paid" /\ credited[i] >= 1
                          \/ RowOf(i).status = "cancelled"

\* The step changes the row of invoice_id in its status only, if at all.
OnlyStatusChanged(invoice_id) ==
    \A r \in RowIds :
       payments[r].invoice_id = invoice_id =>
          payments'[r] = [payments[r] EXCEPT !.status = payments'[r].status]

\* C37: a balance changes only in the credit of process_successful_payment,
\* which changes the balance of the owner of its invoice and nothing else;
\* its UPDATE to paid changes the status of its invoice and nothing else;
\* marking expired, cancelling, listing and status checks change no balance.
C37_BalanceChangesOnlyBySettle ==
    /\ [][balance' # balance =>
             \E t \in Tasks :
                /\ task[t].pc = "s_balance"
                /\ task'[t].pc = "s_commit"
                /\ payments' = payments
                /\ \A u \in Users :
                      u # RowOf(task[t].invoice_id).user_id =>
                         balance'[u] = balance[u]]_vars
    /\ [][\A t \in Tasks :
             (task[t].pc = "s_status" /\ task'[t].pc = "s_balance") =>
                /\ balance' = balance
                /\ OnlyRowChanged(task[t].invoice_id)
                /\ OnlyStatusChanged(task[t].invoice_id)]_vars

C37_Witness ==
    /\ credited["i1"] = 1
    /\ RowOf("i1").status = "paid"
    /\ balance["u1"] = RowOf("i1").amount
    /\ balance["u2"] = 0
    /\ RowOf("i2").status = "expired"

\* The rows of the owner's invoices that are pending and not past expires_at.
ActiveRows(u) ==
    {n \in RowIds : /\ payments[n].user_id = u
                    /\ payments[n].status = "pending"
                    /\ ~Expired(payments[n])}

\* C39: at every moment each owner has at most one invoice that is pending
\* and not past its expires_at, however the steps of the owner's top-ups
\* (menu, method, amount, persisted invoice) interleave.
C39_OneActiveInvoicePerOwner ==
    \A u \in Users : Cardinality(ActiveRows(u)) <= 1

\* C31: get_exchange_rates answers from the cache, without a request to the
\* provider, only when the cache holds rates, its age is below the TTL and
\* no refresh is forced; at an age of the TTL or more the invocation issues
\* the request; and an invocation that issued a request returns the rates of
\* the provider's answer or, when the refresh fails, a failure without
\* rates: never the rates of the cache.
C31_CacheValidWithinTtl ==
    [][\A c \in Callers :
          /\ (rate_calls[c].pc = "idle" /\ rate_calls'[c].pc = "done") =>
                /\ rates_cache # <<>>
                /\ time_time - cache_timestamp < cache_ttl
                /\ ~rate_calls'[c].force_refresh
                /\ rate_calls'[c].result =
                      [success |-> TRUE, rates |-> rates_cache,
                       source |-> "cache"]
          /\ (/\ rate_calls[c].pc = "idle"
              /\ rate_calls'[c].pc # "idle"
              /\ time_time - cache_timestamp >= cache_ttl) =>
                rate_calls'[c].pc = "request"
          /\ (rate_calls[c].pc = "request" /\ rate_calls'[c].pc = "done") =>
                IF rate_calls'[c].result.success
                THEN /\ rate_calls'[c].result.source = "provider"
                     /\ rates_cache' = rate_calls'[c].result.rates
                     /\ cache_timestamp' = rate_calls[c].current_time
                ELSE rate_calls'[c].result.rates = <<>>]_vars

C31_Witness ==
    \E c \in Callers :
       /\ rate_calls[c].pc = "done"
       /\ ~rate_calls[c].result.success
       /\ ~rate_calls[c].force_refresh
       /\ rates_cache # <<>>
       /\ rate_calls[c].current_time - cache_timestamp >= cache_ttl

\* C32: with concurrent invocations of get_exchange_rates on one adapter
\* the cached rates and their timestamp are replaced together: at every
\* await the cache holds the rates and the timestamp that one refresh
\* stored, a step changes neither or stores both, and a refresh that fails
\* leaves both as they are.
C32_CacheReplacedTogether ==
    /\ [](/\ rates_cache = cache_written.rates
          /\ cache_timestamp = cache_written.timestamp)
    /\ [][\A c \in Callers :
             (rate_calls[c].pc = "request" /\ rate_calls'[c].pc = "done") =>
                IF rate_calls'[c].result.success
                THEN /\ rates_cache' = rate_calls'[c].result.rates
                     /\ cache_timestamp' = rate_calls[c].current_time
                ELSE /\ rates_cache' = rates_cache
                     /\ cache_timestamp' = cache_timestamp]_vars
    /\ [][(rates_cache' # rates_cache \/ cache_timestamp' # cache_timestamp)
             => \E c \in Callers :
                   /\ rate_calls[c].pc = "request"
                   /\ rate_calls'[c].result.success]_vars

C32_Witness ==
    \E c, d \in Callers :
       /\ rate_calls[c].pc = "request"
       /\ rate_calls[d].pc = "done"
       /\ rate_calls[d].result.source = "provider"
       /\ rate_calls[c].current_time < rate_calls[d].current_time
       /\ rates_cache = rate_calls[d].result.rates
       /\ rates_cache # <<>>
       /\ cache_timestamp = rate_calls[d].current_time

====
